---- MODULE Spec2Model ----
(***************************************************************************)
(* A model of the search path of the texting client's data-access layer   *)
(* (src-tauri/src/lib.rs): search_messages composes one SQL text from a   *)
(* SearchParams value, prepares it against the chat store, steps over the *)
(* rows and maps every row to a Message.                                  *)
(*                                                                         *)
(* Strings are sequences of one-character strings.  The composed SQL text *)
(* is a sequence whose elements are the string literals of the source     *)
(* (one element per literal piece of a format! template or push_str) and, *)
(* for every interpolated value, the characters of that value, one        *)
(* element per character.                                                 *)
(*                                                                         *)
(* An i64 count of nanoseconds is kept in three limbs <<d, s, n>> that    *)
(* stand for (d * 86400 + s) * 1_000_000_000 + n, with 0 <= s < 86400 and *)
(* 0 <= n < 1_000_000_000 (d carries the sign).  An i64 count of seconds  *)
(* is kept as <<d, s>>, standing for d * 86400 + s.  All limbs fit the    *)
(* integers of the model checker, and the 64-bit range is kept exactly.   *)
(***************************************************************************)
EXTENDS Integers, Sequences, FiniteSets, TLC

(***************************************************************************)
(* Characters and strings                                                  *)
(***************************************************************************)

Digits == {"0", "1", "2", "3", "4", "5", "6", "7", "8", "9"}

\* char::is_ascii_digit
is_ascii_digit(c) == c \in Digits

DigitVal(c) ==
    CASE c = "0" -> 0 [] c = "1" -> 1 [] c = "2" -> 2 [] c = "3" -> 3
      [] c = "4" -> 4 [] c = "5" -> 5 [] c = "6" -> 6 [] c = "7" -> 7
      [] c = "8" -> 8 [] c = "9" -> 9

\* char::to_uppercase on ASCII: a letter a..z becomes A..Z, every other
\* character of the model's alphabet has no case.
UpperChar(c) ==
    CASE c = "a" -> "A" [] c = "b" -> "B" [] c = "c" -> "C" [] c = "d" -> "D"
      [] c = "e" -> "E" [] c = "f" -> "F" [] c = "g" -> "G" [] c = "h" -> "H"
      [] c = "i" -> "I" [] c = "j" -> "J" [] c = "k" -> "K" [] c = "l" -> "L"
      [] c = "m" -> "M" [] c = "n" -> "N" [] c = "o" -> "O" [] c = "p" -> "P"
      [] c = "q" -> "Q" [] c = "r" -> "R" [] c = "s" -> "S" [] c = "t" -> "T"
      [] c = "u" -> "U" [] c = "v" -> "V" [] c = "w" -> "W" [] c = "x" -> "X"
      [] c = "y" -> "Y" [] c = "z" -> "Z" [] OTHER -> c

\* str::to_uppercase
to_uppercase(s) == [i \in 1..Len(s) |-> UpperChar(s[i])]

White == {" "}

\* str::trim followed by is_empty
TrimIsEmpty(s) == \A i \in 1..Len(s) : s[i] \in White

RECURSIVE Filter(_, _)
\* the characters of s that are in set keep, in their order
Filter(s, keep) ==
    IF s = <<>> THEN <<>>
    ELSE (IF Head(s) \in keep THEN <<Head(s)>> ELSE <<>>) \o Filter(Tail(s), keep)

RECURSIVE Flatten(_)
Flatten(ss) == IF ss = <<>> THEN <<>> ELSE Head(ss) \o Flatten(Tail(ss))

RECURSIVE Join(_, _)
\* [String]::join(sep), on sequences of texts
Join(ss, sep) ==
    IF ss = <<>> THEN <<>>
    ELSE IF Len(ss) = 1 THEN ss[1]
    ELSE ss[1] \o sep \o Join(Tail(ss), sep)

IsSuffix(p, s) ==
    /\ Len(p) <= Len(s)
    /\ SubSeq(s, Len(s) - Len(p) + 1, Len(s)) = p

Contains(s, p) ==
    \E i \in 0..(Len(s) - Len(p)) : SubSeq(s, i + 1, i + Len(p)) = p

\* replace("'", "''") leaving every quote single
ReplaceQuote_None(s) == s

RECURSIVE ReplaceQuote(_)
\* str.replace('\'', "''")
ReplaceQuote(s) ==
    IF s = <<>> THEN <<>>
    ELSE (IF Head(s) = "'" THEN <<"'", "'">> ELSE <<Head(s)>>) \o ReplaceQuote(Tail(s))

None == [some |-> FALSE]
Some(v) == [some |-> TRUE, val |-> v]

(***************************************************************************)
(* 64-bit time arithmetic                                                  *)
(***************************************************************************)

NanosPerSecond == 1000000000
AppleEpochOffset == 978307200
SecondsPerDay == 24 * 60 * 60

I64Max == <<106751, 85636, 854775807>>      \* 2^63 - 1 nanoseconds
I64Min == <<-106752, 763, 145224192>>       \* -2^63 nanoseconds
TwoTo64 == <<213503, 84873, 709551616>>     \* 2^64 nanoseconds

NsLess(a, b) ==
    \/ a[1] < b[1]
    \/ a[1] = b[1] /\ a[2] < b[2]
    \/ a[1] = b[1] /\ a[2] = b[2] /\ a[3] < b[3]

NsNorm(d, s, n) ==
    LET s2 == s + (n \div NanosPerSecond)
    IN  <<d + (s2 \div SecondsPerDay), s2 % SecondsPerDay, n % NanosPerSecond>>

NsAdd(a, b) == NsNorm(a[1] + b[1], a[2] + b[2], a[3] + b[3])
NsSub(a, b) == NsNorm(a[1] - b[1], a[2] - b[2], a[3] - b[3])

I64InRange(v) == ~NsLess(v, I64Min) /\ ~NsLess(I64Max, v)

RECURSIVE I64Wrap(_)
\* the value modulo 2^64, as a signed 64-bit integer
I64Wrap(v) ==
    IF NsLess(I64Max, v) THEN I64Wrap(NsSub(v, TwoTo64))
    ELSE IF NsLess(v, I64Min) THEN I64Wrap(NsAdd(v, TwoTo64))
    ELSE v

SecsNorm(d, s) == <<d + (s \div SecondsPerDay), s % SecondsPerDay>>

\* seconds + k and seconds - k for an integer k
SecsAdd(t, k) == SecsNorm(t[1], t[2] + k)
SecsSub(t, k) == SecsNorm(t[1], t[2] - k)

\* seconds * 1_000_000_000 before any reduction to 64 bits: the limb form
\* of the product has the seconds in its two upper limbs
SecsTimesNanos(t) == <<t[1], t[2], 0>>

\* i64 division by 1_000_000_000, which truncates toward zero
NsDivNanos(v) ==
    IF v[1] < 0 /\ v[3] > 0 THEN SecsAdd(<<v[1], v[2]>>, 1) ELSE <<v[1], v[2]>>

apple_time_to_unix(apple_time) == SecsAdd(apple_time, AppleEpochOffset)

(***************************************************************************)
(* Decimal text of an i64 (format!("{}", timestamp)) and its reading back  *)
(* as an integer literal of the query                                      *)
(***************************************************************************)

DigitChar(k) ==
    CASE k = 0 -> "0" [] k = 1 -> "1" [] k = 2 -> "2" [] k = 3 -> "3"
      [] k = 4 -> "4" [] k = 5 -> "5" [] k = 6 -> "6" [] k = 7 -> "7"
      [] k = 8 -> "8" [] k = 9 -> "9"

RECURSIVE Dec(_)
\* the decimal digits of a natural number, no leading zeros
Dec(k) == IF k < 10 THEN <<DigitChar(k)>> ELSE Dec(k \div 10) \o <<DigitChar(k % 10)>>

RECURSIVE PadZeros(_, _)
PadZeros(s, w) == IF Len(s) >= w THEN s ELSE PadZeros(<<"0">> \o s, w)

\* nine decimal digits of k < 10^9
Dec9(k) == PadZeros(Dec(k), 9)

\* <i64 as Display>::fmt: an optional minus sign and the decimal digits.
\* |v| = hi * 10^18 + lo * 10^9 + n, where hi * 10^9 + lo = d * 86400 + s.
FormatI64(v) ==
    LET neg == v[1] < 0
        a   == IF neg THEN NsSub(<<0, 0, 0>>, v) ELSE v
        x   == a[1] * 864
        low == (x % 10000000) * 100 + a[2]
        hi  == (x \div 10000000) + (low \div NanosPerSecond)
        lo  == low % NanosPerSecond
        mag == IF hi > 0 THEN Dec(hi) \o Dec9(lo) \o Dec9(a[3])
               ELSE IF lo > 0 THEN Dec(lo) \o Dec9(a[3])
               ELSE Dec(a[3])
    IN  (IF neg THEN <<"-">> ELSE <<>>) \o mag

RECURSIVE DecVal(_)
\* the value of at most nine decimal digits
DecVal(s) == IF s = <<>> THEN 0 ELSE DecVal(SubSeq(s, 1, Len(s) - 1)) * 10 + DigitVal(s[Len(s)])

\* the integer a decimal literal of at most 19 digits denotes, in limbs
\* (10^9 seconds are 11574 days and 6400 seconds)
ParseI64(s) ==
    LET neg  == s # <<>> /\ s[1] = "-"
        ds   == IF neg THEN Tail(s) ELSE s
        k    == Len(ds)
        n    == DecVal(SubSeq(ds, IF k > 9 THEN k - 8 ELSE 1, k))
        lo   == IF k > 9 THEN DecVal(SubSeq(ds, IF k > 18 THEN k - 17 ELSE 1, k - 9)) ELSE 0
        hi   == IF k > 18 THEN DecVal(SubSeq(ds, 1, k - 18)) ELSE 0
        rest == hi * 6400 + lo
        a    == <<hi * 11574 + (rest \div SecondsPerDay), rest % SecondsPerDay, n>>
    IN  IF neg THEN NsSub(<<0, 0, 0>>, a) ELSE a

(***************************************************************************)
(* Calendar dates (chrono::NaiveDate)                                      *)
(***************************************************************************)

\* scan::number(s, 1, max) at position i: at least one and at most max
\* digits, taken greedily
ScanNumber(s, i, max) ==
    LET cnt == CHOOSE c \in 0..max :
                  /\ \A j \in 0..(c - 1) : i + j <= Len(s) /\ is_ascii_digit(s[i + j])
                  /\ (c = max \/ i + c > Len(s) \/ ~is_ascii_digit(s[i + c]))
    IN  IF cnt = 0 THEN [ok |-> FALSE]
        ELSE [ok |-> TRUE, val |-> DecVal(SubSeq(s, i, i + cnt - 1)), next |-> i + cnt]

IsLeap(y) == (y % 4 = 0 /\ y % 100 # 0) \/ y % 400 = 0

DaysInMonth(y, m) ==
    IF m = 2 THEN (IF IsLeap(y) THEN 29 ELSE 28)
    ELSE IF m \in {4, 6, 9, 11} THEN 30 ELSE 31

\* ValidDate accepting every day up to 31 in every month
ValidDate_AnyDay(y, m, d) == m \in 1..12 /\ d \in 1..31

\* NaiveDate::from_ymd_opt
ValidDate(y, m, d) == m \in 1..12 /\ d >= 1 /\ d <= DaysInMonth(y, m)

\* days from 1970-01-01 to the proleptic Gregorian date y-m-d
DaysFromCivil(y, m, d) ==
    LET yy  == IF m <= 2 THEN y - 1 ELSE y
        era == yy \div 400
        yoe == yy - era * 400
        mp  == IF m > 2 THEN m - 3 ELSE m + 9
        doy == (153 * mp + 2) \div 5 + d - 1
        doe == yoe * 365 + (yoe \div 4) - (yoe \div 100) + doy
    IN  era * 146097 + doe - 719468

\* NaiveDate::parse_from_str(date_str, "%Y-%m-%d"): an unsigned year of at
\* most four digits, a month and a day of at most two digits each, nothing
\* after the day; the date must exist.  (Signed years and blanks before a
\* number are outside the model's inputs.)
ParseDate(date_str) ==
    LET y == ScanNumber(date_str, 1, 4)
    IN  IF ~y.ok \/ y.next > Len(date_str) \/ date_str[y.next] # "-" THEN None
        ELSE LET m == ScanNumber(date_str, y.next + 1, 2)
             IN  IF ~m.ok \/ m.next > Len(date_str) \/ date_str[m.next] # "-" THEN None
                 ELSE LET d == ScanNumber(date_str, m.next + 1, 2)
                      IN  IF ~d.ok \/ d.next # Len(date_str) + 1 THEN None
                          ELSE IF ~ValidDate(y.val, m.val, d.val) THEN None
                          ELSE Some(<<y.val, m.val, d.val>>)

\* NaiveDate::and_hms_opt(h, mi, s) followed by NaiveDateTime::timestamp:
\* Unix seconds of that time of day on date ymd
and_hms_timestamp(ymd, h, mi, s) ==
    <<DaysFromCivil(ymd[1], ymd[2], ymd[3]), h * 3600 + mi * 60 + s>>

\* The outcomes of date_to_apple_timestamp(date_str): None when the string
\* is no date; otherwise (timestamp - 978307200) * 1_000_000_000 in i64.
\* When the product leaves the 64-bit range the build decides: a panic
\* (overflow checks on) or the wrapped value (overflow checks off).
date_to_apple_timestamp(date_str) ==
    LET date == ParseDate(date_str)
    IN  IF ~date.some THEN {[kind |-> "none"]}
        ELSE LET timestamp == and_hms_timestamp(date.val, 23, 59, 59)
                 product   == SecsTimesNanos(SecsSub(timestamp, AppleEpochOffset))
             IN  IF I64InRange(product) THEN {[kind |-> "some", val |-> product]}
                 ELSE {[kind |-> "panic"], [kind |-> "some", val |-> I64Wrap(product)]}

(***************************************************************************)
(* The text of the query: the literal pieces search_messages pushes        *)
(***************************************************************************)

BaseSql == "SELECT DISTINCT m.ROWID as message_id, m.text, m.date, m.is_from_me, cmj.chat_id, h.id as handle_id, COALESCE(h.uncanonicalized_id, h.id) as sender_id, (SELECT a.filename FROM attachment a JOIN message_attachment_join maj ON maj.attachment_id = a.ROWID WHERE maj.message_id = m.ROWID LIMIT 1) as attachment_path FROM message m INNER JOIN chat_message_join cmj ON m.ROWID = cmj.message_id LEFT JOIN handle h ON m.handle_id = h.ROWID WHERE 1=1"

TextPre == " AND m.text LIKE '%"
TextPost == "%'"

EqPre == "(h.id = '"
EqMid == "' OR h.uncanonicalized_id = '"
EqPost == "')"

PhonePre == "( REPLACE(REPLACE(REPLACE(REPLACE(REPLACE(h.id, '+', ''), '-', ''), ' ', ''), '(', ''), ')', '') LIKE '%"
PhoneMid == "' OR REPLACE(REPLACE(REPLACE(REPLACE(REPLACE(h.uncanonicalized_id, '+', ''), '-', ''), ' ', ''), '(', ''), ')', '') LIKE '%"
PhonePost == "' )"

LParen == "("
RParen == ")"
OrSep == " OR "
AndSep == " AND "
SenderPre == " AND ("

ConvPre == " AND cmj.chat_id = "
AfterPre == " AND m.date > "
BeforePre == " AND m.date < "
MineClause == " AND m.is_from_me = 1"
AttachClause == " AND EXISTS ( SELECT 1 FROM attachment a JOIN message_attachment_join maj ON maj.attachment_id = a.ROWID WHERE maj.message_id = m.ROWID )"
TypePre == " AND EXISTS ( SELECT 1 FROM chat c WHERE c.ROWID = cmj.chat_id AND ( SELECT COUNT(DISTINCT h2.id) FROM chat_handle_join chj2 JOIN handle h2 ON h2.ROWID = chj2.handle_id WHERE chj2.chat_id = c.ROWID ) "
TypeDirect == " <= 1"
TypeGroup == " > 1"
OrderPre == " ORDER BY m.date "
LimitPost == " LIMIT 100"

(***************************************************************************)
(* search_messages: composing the query                                    *)
(***************************************************************************)

normalize_phone_number(phone) == Filter(phone, Digits)

\* TextClause testing the query for emptiness without trimming it
TextClause_NoTrim(p) ==
    IF p.query # <<>>
    THEN <<TextPre>> \o ReplaceQuote(p.query) \o <<TextPost>>
    ELSE <<>>

\* the text search, added when the query is not blank
TextClause(p) ==
    IF ~TrimIsEmpty(p.query)
    THEN <<TextPre>> \o ReplaceQuote(p.query) \o <<TextPost>>
    ELSE <<>>

\* format!("(h.id = '{}' OR h.uncanonicalized_id = '{}')", escaped, escaped)
EqCondition(value) ==
    LET escaped == ReplaceQuote(value)
    IN  <<EqPre>> \o escaped \o <<EqMid>> \o escaped \o <<EqPost>>

\* last_10 taking the leading ten digits instead of the trailing ten
last_10_Leading(numeric_phone) ==
    IF Len(numeric_phone) > 10
    THEN SubSeq(numeric_phone, 1, 10)
    ELSE numeric_phone

\* numeric_phone[len - 10 ..] when longer than 10, else numeric_phone
last_10(numeric_phone) ==
    IF Len(numeric_phone) > 10
    THEN SubSeq(numeric_phone, Len(numeric_phone) - 9, Len(numeric_phone))
    ELSE numeric_phone

\* the conditions one phone contributes: none when it holds no digit
PhoneCondition(phone) ==
    LET numeric_phone == normalize_phone_number(phone)
    IN  IF numeric_phone # <<>>
        THEN << <<PhonePre>> \o last_10(numeric_phone) \o <<PhoneMid>>
                  \o last_10(numeric_phone) \o <<PhonePost>> >>
        ELSE <<>>

RECURSIVE PhoneConditions(_)
PhoneConditions(phones) ==
    IF phones = <<>> THEN <<>>
    ELSE PhoneCondition(Head(phones)) \o PhoneConditions(Tail(phones))

\* identifier_conditions of one ContactIdentifier: contact_id, then the
\* phones, then the emails
identifier_conditions(identifier) ==
    (IF identifier.contact_id.some
        THEN <<EqCondition(identifier.contact_id.val)>> ELSE <<>>)
    \o PhoneConditions(identifier.phones)
    \o [i \in 1..Len(identifier.emails) |-> EqCondition(identifier.emails[i])]

RECURSIVE conditions_Always(_)
\* conditions with a group for every identifier, also one that contributes
\* nothing
conditions_Always(identifiers) ==
    IF identifiers = <<>> THEN <<>>
    ELSE << <<LParen>> \o Join(identifier_conditions(Head(identifiers)), <<OrSep>>)
              \o <<RParen>> >>
         \o conditions_Always(Tail(identifiers))

RECURSIVE conditions(_)
\* one parenthesized group per identifier that contributes a condition
conditions(identifiers) ==
    IF identifiers = <<>> THEN <<>>
    ELSE (IF identifier_conditions(Head(identifiers)) # <<>>
             THEN << <<LParen>> \o Join(identifier_conditions(Head(identifiers)), <<OrSep>>)
                       \o <<RParen>> >>
             ELSE <<>>)
         \o conditions(Tail(identifiers))

\* SenderClause joining the identifiers' groups with AND
SenderClause_And(p) ==
    IF p.contact_identifiers # <<>> /\ conditions(p.contact_identifiers) # <<>>
    THEN <<SenderPre>> \o Join(conditions(p.contact_identifiers), <<AndSep>>) \o <<RParen>>
    ELSE <<>>

SenderClause(p) ==
    IF p.contact_identifiers # <<>> /\ conditions(p.contact_identifiers) # <<>>
    THEN <<SenderPre>> \o Join(conditions(p.contact_identifiers), <<OrSep>>) \o <<RParen>>
    ELSE <<>>

\* format!(" AND cmj.chat_id = {}", conv_id)
ConvClause(p) ==
    IF p.conversation_id.some THEN <<ConvPre>> \o p.conversation_id.val ELSE <<>>

\* AfterClause with the bound moved from 23:59:59 back to 00:00:00 of the day
AfterClause_StartOfDay(ts) ==
    IF ts.kind = "some"
    THEN <<AfterPre>> \o FormatI64(NsSub(ts.val, <<0, 86399, 0>>))
    ELSE <<>>

\* ts is an outcome of date_to_apple_timestamp, or "none" for an absent date
AfterClause(ts) ==
    IF ts.kind = "some" THEN <<AfterPre>> \o FormatI64(ts.val) ELSE <<>>

BeforeClause(ts) ==
    IF ts.kind = "some" THEN <<BeforePre>> \o FormatI64(ts.val) ELSE <<>>

FlagClauses(p) ==
    (IF p.show_only_my_messages THEN <<MineClause>> ELSE <<>>)
    \o (IF p.show_only_attachments THEN <<AttachClause>> ELSE <<>>)

\* the conversation type read as a lenient three-valued kind: a string that
\* is neither "direct" nor "group" adds no clause
TypeClause_Lenient(p) ==
    IF p.conversation_type \in {"direct", "group"}
    THEN <<TypePre>>
         \o (IF p.conversation_type = "direct" THEN <<TypeDirect>> ELSE <<TypeGroup>>)
         \o <<RParen>>
    ELSE <<>>

TypeClause(p) ==
    IF p.conversation_type # "all"
    THEN <<TypePre>>
         \o (IF p.conversation_type = "direct" THEN <<TypeDirect>> ELSE <<TypeGroup>>)
         \o <<RParen>>
    ELSE <<>>

OrderClause(p) == <<OrderPre>> \o to_uppercase(p.sort_direction) \o <<LimitPost>>

\* ComposeSql with the date filters pushed before the sender group and the
\* conversation filter
ComposeSql_DatesFirst(p, start_ts, end_ts) ==
    <<BaseSql>> \o TextClause(p)
    \o AfterClause(start_ts) \o BeforeClause(end_ts)
    \o SenderClause(p) \o ConvClause(p)
    \o FlagClauses(p) \o TypeClause(p) \o OrderClause(p)

\* the whole text, given the outcomes of the two date conversions
ComposeSql(p, start_ts, end_ts) ==
    <<BaseSql>> \o TextClause(p) \o SenderClause(p) \o ConvClause(p)
    \o AfterClause(start_ts) \o BeforeClause(end_ts)
    \o FlagClauses(p) \o TypeClause(p) \o OrderClause(p)

\* the outcomes of converting an optional date parameter
DateOutcomes(date) ==
    IF date.some THEN date_to_apple_timestamp(date.val) ELSE {[kind |-> "none"]}

(***************************************************************************)
(* The chat store: the rows of message joined with chat_message_join and   *)
(* handle (lines 923-928), and the number of distinct handles of each chat *)
(***************************************************************************)

Null == [t |-> "null"]
Integer(v) == [t |-> "int", v |-> v]
Text(v) == [t |-> "text", v |-> v]
Blob(v) == [t |-> "blob", v |-> v]

\* message 1: received in the direct chat 1 from a phone handle
\* message 2: sent by me in chat 1 (no handle), at 23:59:59 of 2024-01-01
\* message 3: an attachment without text, received in the group chat 2
\* message 4: its text column holds a BLOB; received in chat 2
\* message 5: dated before 2001, with a fraction of a second; is_from_me 2
StoreRows ==
    << [message_id |-> 1, text |-> Text(<<"h", "i", " ", "b", "o", "b">>), date |-> Integer(<<8400, 43200, 0>>),
        is_from_me |-> Integer(0), chat_id |-> 1,
        h_id |-> Text(<<"+", "1", "4", "1", "5", "5", "5", "5", "0", "1", "0", "0">>), h_uncanonicalized_id |-> Text(<<"(", "4", "1", "5", ")", " ", "5", "5", "5", "-", "0", "1", "0", "0">>),
        attachments |-> <<>>],
       [message_id |-> 2, text |-> Text(<<"o", "k">>), date |-> Integer(<<8400, 86399, 0>>),
        is_from_me |-> Integer(1), chat_id |-> 1,
        h_id |-> Null, h_uncanonicalized_id |-> Null,
        attachments |-> <<>>],
       [message_id |-> 3, text |-> Null, date |-> Integer(<<8401, 1, 0>>),
        is_from_me |-> Integer(0), chat_id |-> 2,
        h_id |-> Text(<<"j", "o", "@", "x", ".", "i", "o">>), h_uncanonicalized_id |-> Null,
        attachments |-> <<Text(<<"a", ".", "p", "n", "g">>)>>],
       [message_id |-> 4, text |-> Blob(<<"h", "i">>), date |-> Integer(<<8399, 100, 123456789>>),
        is_from_me |-> Integer(0), chat_id |-> 2,
        h_id |-> Text(<<"j", "o", "@", "x", ".", "i", "o">>), h_uncanonicalized_id |-> Text(<<"J", "o", "@", "X", ".", "i", "o">>),
        attachments |-> <<>>],
       [message_id |-> 5, text |-> Text(<<"o", "'", "k">>), date |-> Integer(<<-1, 86399, 500000000>>),
        is_from_me |-> Integer(2), chat_id |-> 2,
        h_id |-> Text(<<"5", "5", "5", "-", "0", "1", "0", "0">>), h_uncanonicalized_id |-> Null,
        attachments |-> <<Null>>] >>

\* COUNT(DISTINCT h2.id) over chat_handle_join, per chat ROWID
ChatHandles == [c \in {1, 2} |-> IF c = 1 THEN 1 ELSE 3]

(***************************************************************************)
(* What the store makes of the query text (conn.prepare and the stepping   *)
(* of the statement)                                                       *)
(***************************************************************************)

RECURSIVE Like(_, _)
\* SQLite's LIKE: % matches any run, _ one character, letters without case
Like(pat, s) ==
    IF pat = <<>> THEN s = <<>>
    ELSE IF Head(pat) = "%"
         THEN Like(Tail(pat), s) \/ (s # <<>> /\ Like(pat, Tail(s)))
    ELSE IF s = <<>> THEN FALSE
    ELSE IF Head(pat) = "_" THEN Like(Tail(pat), Tail(s))
    ELSE UpperChar(Head(pat)) = UpperChar(Head(s)) /\ Like(Tail(pat), Tail(s))

RECURSIVE RemoveChars(_, _)
RemoveChars(s, drop) ==
    IF s = <<>> THEN <<>>
    ELSE (IF Head(s) \in drop THEN <<>> ELSE <<Head(s)>>) \o RemoveChars(Tail(s), drop)

\* REPLACE(REPLACE(REPLACE(REPLACE(REPLACE(x, '+', ''), '-', ''), ' ', ''), '(', ''), ')', '')
StripPunctuation(s) == RemoveChars(s, {"+", "-", " ", "(", ")"})

RECURSIVE LitOk(_)
\* the characters between the quotes of a string literal: every quote
\* among them must be doubled, or the literal ends before the composer's
\* closing quote
LitOk(s) ==
    IF s = <<>> THEN TRUE
    ELSE IF Head(s) = "'" THEN Len(s) >= 2 /\ s[2] = "'" /\ LitOk(Tail(Tail(s)))
    ELSE LitOk(Tail(s))

RECURSIVE LitVal(_)
\* the string such a literal denotes
LitVal(s) ==
    IF s = <<>> THEN <<>>
    ELSE IF Head(s) = "'" THEN <<"'">> \o LitVal(Tail(Tail(s)))
    ELSE <<Head(s)>> \o LitVal(Tail(s))

FirstIndex(s, tok) ==
    IF \E i \in 1..Len(s) : s[i] = tok
    THEN CHOOSE i \in 1..Len(s) : s[i] = tok /\ \A j \in 1..(i - 1) : s[j] # tok
    ELSE 0

\* the truth of one sender condition (from its opening piece to its closing
\* piece) on a row: "T", "F", or "?" when it is no well-formed condition
CondTruth(cond, row) ==
    LET eq  == cond[1] = EqPre
        m   == FirstIndex(cond, IF eq THEN EqMid ELSE PhoneMid)
        l1  == SubSeq(cond, 2, m - 1)
        l2  == SubSeq(cond, m + 1, Len(cond) - 1)
        id  == row.h_id
        un  == row.h_uncanonicalized_id
        hit == IF eq
               THEN \/ id.t = "text" /\ id.v = LitVal(l1)
                    \/ un.t = "text" /\ un.v = LitVal(l2)
               ELSE \/ id.t = "text" /\ Like(<<"%">> \o LitVal(l1), StripPunctuation(id.v))
                    \/ un.t = "text" /\ Like(<<"%">> \o LitVal(l2), StripPunctuation(un.v))
    IN  IF m = 0 \/ ~LitOk(l1) \/ ~LitOk(l2) THEN "?"
        ELSE IF hit THEN "T" ELSE "F"

RECURSIVE ReduceConds(_, _)
\* the sender group with every condition replaced by its truth on the row
ReduceConds(toks, row) ==
    IF toks = <<>> THEN <<>>
    ELSE IF Head(toks) \in {EqPre, PhonePre}
         THEN LET k == FirstIndex(toks, IF Head(toks) = EqPre THEN EqPost ELSE PhonePost)
              IN  IF k = 0 THEN <<"?">>
                  ELSE <<CondTruth(SubSeq(toks, 1, k), row)>>
                       \o ReduceConds(SubSeq(toks, k + 1, Len(toks)), row)
    ELSE <<Head(toks)>> \o ReduceConds(Tail(toks), row)

RECURSIVE ParseOr(_, _)
RECURSIVE ParseAnd(_, _)
RECURSIVE ParseAtom(_, _)
\* Boolean expressions over "T" and "F": AND binds tighter than OR
ParseAtom(t, i) ==
    IF i > Len(t) THEN [ok |-> FALSE]
    ELSE IF t[i] \in {"T", "F"} THEN [ok |-> TRUE, val |-> t[i] = "T", next |-> i + 1]
    ELSE IF t[i] = LParen
         THEN LET e == ParseOr(t, i + 1)
              IN  IF e.ok /\ e.next <= Len(t) /\ t[e.next] = RParen
                  THEN [ok |-> TRUE, val |-> e.val, next |-> e.next + 1]
                  ELSE [ok |-> FALSE]
    ELSE [ok |-> FALSE]

ParseAnd(t, i) ==
    LET f == ParseAtom(t, i)
    IN  IF ~f.ok THEN f
        ELSE IF f.next <= Len(t) /\ t[f.next] = AndSep
             THEN LET r == ParseAnd(t, f.next + 1)
                  IN  IF r.ok THEN [r EXCEPT !.val = f.val /\ r.val] ELSE r
        ELSE f

ParseOr(t, i) ==
    LET f == ParseAnd(t, i)
    IN  IF ~f.ok THEN f
        ELSE IF f.next <= Len(t) /\ t[f.next] = OrSep
             THEN LET r == ParseOr(t, f.next + 1)
                  IN  IF r.ok THEN [r EXCEPT !.val = f.val \/ r.val] ELSE r
        ELSE f

\* the sender group " AND ( ... )" on a row
SenderGroup(c, row) ==
    LET e == ParseAtom(<<LParen>> \o ReduceConds(Tail(c), row), 1)
    IN  [ok |-> e.ok /\ e.next = Len(<<LParen>> \o ReduceConds(Tail(c), row)) + 1,
         val |-> e.ok /\ e.val]

IsIntLiteral(s) ==
    /\ s # <<>>
    /\ LET ds == IF s[1] = "-" THEN Tail(s) ELSE s
       IN  ds # <<>> /\ Len(ds) <= 19 /\ \A i \in 1..Len(ds) : ds[i] \in Digits

\* how the store reads the term interpolated after "cmj.chat_id = ": an
\* integer literal, a column of the query's tables, a bind parameter, or
\* (any other name) an unknown column
ConvTermKind(term) ==
    IF IsIntLiteral(term) THEN "int"
    ELSE IF term = <<"c", "m", "j", ".", "c", "h", "a", "t", "_", "i", "d">> THEN "column"
    ELSE IF term = <<"?">> THEN "param"
    ELSE "unknown"

Heads ==
    {TextPre, SenderPre, ConvPre, AfterPre, BeforePre, MineClause, AttachClause,
     TypePre, OrderPre}

\* the clauses of the text after the fixed SELECT: each from its opening
\* piece up to the next opening piece
HeadIdx(sql) == {i \in 1..Len(sql) : sql[i] \in Heads}

ClauseAt(sql, i) ==
    LET later == {j \in HeadIdx(sql) : j > i}
        stop  == IF later = {} THEN Len(sql) + 1
                 ELSE CHOOSE j \in later : \A k \in later : j <= k
    IN  SubSeq(sql, i, stop - 1)

Clauses(sql) == {ClauseAt(sql, i) : i \in HeadIdx(sql)}

\* where a "--" comment opens in the text interpolated after ORDER BY m.date
\* (0: nowhere); the store reads nothing from there to the end of the line,
\* and the composed text has no line after it
CommentStart(c) ==
    LET at == {i \in 2..(Len(c) - 2) : c[i] = "-" /\ c[i + 1] = "-"}
    IN  IF at = {} THEN 0 ELSE CHOOSE i \in at : \A j \in at : i <= j

\* the ordering term the store reads after ORDER BY m.date, without the
\* blanks around it
OrderTerm(c) ==
    LET stop == IF CommentStart(c) = 0 THEN Len(c) - 1 ELSE CommentStart(c) - 1
        ink  == {i \in 2..stop : c[i] # " "}
    IN  IF ink = {} THEN <<>>
        ELSE SubSeq(c, CHOOSE i \in ink : \A j \in ink : i <= j,
                       CHOOSE i \in ink : \A j \in ink : j <= i)

\* whether the store reads the closing " LIMIT 100" of the text
LimitInForce(sql) ==
    \E i \in HeadIdx(sql) : sql[i] = OrderPre /\ CommentStart(ClauseAt(sql, i)) = 0

\* whether the store accepts the clause when it compiles the statement
ClauseOk(c) ==
    CASE c[1] = TextPre -> c[Len(c)] = TextPost /\ LitOk(SubSeq(c, 2, Len(c) - 1))
      [] c[1] = SenderPre -> SenderGroup(c, StoreRows[1]).ok
      [] c[1] = ConvPre -> ConvTermKind(Tail(c)) # "unknown"
      [] c[1] \in {AfterPre, BeforePre} -> IsIntLiteral(Tail(c))
      [] c[1] \in {MineClause, AttachClause} -> Len(c) = 1
      [] c[1] = TypePre -> Len(c) = 3 /\ c[2] \in {TypeDirect, TypeGroup} /\ c[3] = RParen
      [] c[1] = OrderPre ->
            /\ c[Len(c)] = LimitPost
            /\ OrderTerm(c) \in {<<>>, <<"A", "S", "C">>, <<"D", "E", "S", "C">>}

\* whether a row satisfies an accepted clause (a NULL operand makes the
\* comparison NULL, which WHERE rejects)
ClauseHolds(c, row) ==
    CASE c[1] = TextPre ->
            /\ row.text.t # "null"
            /\ Like(<<"%">> \o LitVal(SubSeq(c, 2, Len(c) - 1)) \o <<"%">>, row.text.v)
      [] c[1] = SenderPre -> SenderGroup(c, row).val
      [] c[1] = ConvPre ->
            CASE ConvTermKind(Tail(c)) = "int" -> ParseI64(Tail(c)) = <<0, 0, row.chat_id>>
              [] ConvTermKind(Tail(c)) = "column" -> TRUE
              [] OTHER -> FALSE
      [] c[1] = AfterPre -> row.date.t = "int" /\ NsLess(ParseI64(Tail(c)), row.date.v)
      [] c[1] = BeforePre -> row.date.t = "int" /\ NsLess(row.date.v, ParseI64(Tail(c)))
      [] c[1] = MineClause -> row.is_from_me = Integer(1)
      [] c[1] = AttachClause -> row.attachments # <<>>
      [] c[1] = TypePre ->
            IF c[2] = TypeDirect THEN ChatHandles[row.chat_id] <= 1
            ELSE ChatHandles[row.chat_id] > 1
      [] c[1] = OrderPre -> TRUE

\* conn.prepare(&sql) fails on a text the store does not accept
PrepareFails(sql) == \E c \in Clauses(sql) : ~ClauseOk(c)

\* the number of bind parameters of the statement; query_map([]) binds none
ParameterCount(sql) ==
    Cardinality({c \in Clauses(sql) : c[1] = ConvPre /\ ConvTermKind(Tail(c)) = "param"})

RowMatches(sql, row) == \A c \in Clauses(sql) : ClauseHolds(c, row)

Descending(sql) ==
    \E c \in Clauses(sql) : c[1] = OrderPre /\ OrderTerm(c) = <<"D", "E", "S", "C">>

RECURSIVE SortByDate(_, _)
\* ORDER BY m.date over rows whose dates differ
SortByDate(rows, desc) ==
    IF rows = {} THEN <<>>
    ELSE LET first == CHOOSE r \in rows : \A q \in rows \ {r} :
                          IF desc THEN NsLess(q.date.v, r.date.v)
                          ELSE NsLess(r.date.v, q.date.v)
         IN  <<first>> \o SortByDate(rows \ {first}, desc)

RowLimit == 100

\* the rows the statement yields, in order, when no step fails
ResultRows(sql) ==
    LET hits   == {StoreRows[i] : i \in {j \in 1..Len(StoreRows) : RowMatches(sql, StoreRows[j])}}
        sorted == SortByDate(hits, Descending(sql))
    IN  SubSeq(sorted, 1, IF LimitInForce(sql) /\ Len(sorted) > RowLimit
                          THEN RowLimit ELSE Len(sorted))

(***************************************************************************)
(* The result mapper: the closure given to query_map (lines 1055-1095)     *)
(***************************************************************************)

Placeholder == <<"[Attachment or empty message]">>

\* row.get(1)? fails on a column that is neither TEXT nor NULL; every other
\* column that does not decode falls back to a default
RowDecodes(row) == row.text.t \in {"text", "null"}

\* COALESCE(h.uncanonicalized_id, h.id)
sender_id(row) ==
    IF row.h_uncanonicalized_id.t # "null" THEN row.h_uncanonicalized_id ELSE row.h_id

\* the first attachment's filename, NULL when there is none
attachment_path(row) == IF row.attachments = <<>> THEN Null ELSE row.attachments[1]

\* MapRow reading every non-zero flag as "from me"
MapRow_Truthy(row) ==
    LET is_from_me == row.is_from_me.t = "int" /\ row.is_from_me.v # 0
    IN  [id |-> row.message_id,
         text |-> IF row.text.t = "text" THEN row.text.v ELSE Placeholder,
         date |-> IF row.date.t = "int" THEN apple_time_to_unix(NsDivNanos(row.date.v))
                  ELSE <<0, 0>>,
         is_from_me |-> is_from_me,
         chat_id |-> Some(Dec(row.chat_id)),
         sender_name |-> IF sender_id(row).t = "text" /\ ~is_from_me
                         THEN Some(sender_id(row).v) ELSE None,
         attachment_path |-> IF attachment_path(row).t = "text"
                             THEN Some(attachment_path(row).v) ELSE None,
         conversation_name |-> None]

MapRow(row) ==
    LET is_from_me == row.is_from_me.t = "int" /\ row.is_from_me.v = 1
    IN  [id |-> row.message_id,
         text |-> IF row.text.t = "text" THEN row.text.v ELSE Placeholder,
         date |-> IF row.date.t = "int" THEN apple_time_to_unix(NsDivNanos(row.date.v))
                  ELSE <<0, 0>>,
         is_from_me |-> is_from_me,
         chat_id |-> Some(Dec(row.chat_id)),
         sender_name |-> IF sender_id(row).t = "text" /\ ~is_from_me
                         THEN Some(sender_id(row).v) ELSE None,
         attachment_path |-> IF attachment_path(row).t = "text"
                             THEN Some(attachment_path(row).v) ELSE None,
         conversation_name |-> None]

RECURSIVE CollectMessages_Abort(_)
\* CollectMessages ending the loop at the first item that is no message
CollectMessages_Abort(rows) ==
    IF rows = <<>> \/ ~RowDecodes(Head(rows)) THEN <<>>
    ELSE <<MapRow(Head(rows))>> \o CollectMessages_Abort(Tail(rows))

RECURSIVE CollectMessages(_)
\* the loop over message_iter: a row that decodes is pushed, any other
\* item is passed over
CollectMessages(rows) ==
    IF rows = <<>> THEN <<>>
    ELSE (IF RowDecodes(Head(rows)) THEN <<MapRow(Head(rows))>> ELSE <<>>)
         \o CollectMessages(Tail(rows))

(***************************************************************************)
(* Requests                                                                *)
(***************************************************************************)

MaxIdentifiers == 2

Queries == {<<>>, <<"h", "i">>, <<"o", "'", "k">>}

DateStrings == {<<"2", "0", "2", "4", "-", "0", "1", "-", "0", "1">>, <<"2", "0", "2", "4", "-", "0", "1", "-", "0", "2">>, <<"2", "0", "0", "0", "-", "1", "2", "-", "3", "1">>, <<"2", "3", "0", "0", "-", "0", "1", "-", "0", "1">>, <<"2", "0", "2", "4", "-", "0", "2", "-", "3", "0">>}

Dates == {None} \cup {Some(d) : d \in DateStrings}

ConversationIds == {None, Some(<<"2">>), Some(<<"a", "b", "c">>), Some(<<"c", "m", "j", ".", "c", "h", "a", "t", "_", "i", "d">>), Some(<<"?">>)}

IdentifierPool ==
    { [contact_id |-> Some(<<"+", "1", "4", "1", "5", "5", "5", "5", "0", "1", "0", "0">>), phones |-> << <<"+", "1", " ", "(", "4", "1", "5", ")", " ", "5", "5", "5", "-", "0", "1", "0", "0">> >>, emails |-> <<>>],
      [contact_id |-> None, phones |-> <<>>,
       emails |-> << <<"J", "o", "@", "X", ".", "i", "o">>, <<"o", "'", "b", "@", "x", ".", "i", "o">> >>],
      [contact_id |-> Some(<<"o", "'", "k">>),
       phones |-> << <<"n", "/", "a">>, <<"5", "5", "5", "-", "0", "1", "0", "0">> >>, emails |-> <<>>] }

RECURSIVE SeqsUpTo(_, _)
\* the sequences over S of length at most n
SeqsUpTo(S, n) ==
    IF n = 0 THEN {<<>>}
    ELSE SeqsUpTo(S, n - 1) \cup {<<x>> \o t : x \in S, t \in {u \in SeqsUpTo(S, n - 1) : Len(u) = n - 1}}

SortDirections == {<<"a", "s", "c">>, <<"d", "e", "s", "c">>}

ConversationTypes == {"all", "direct", "group"}

NoParams ==
    [query |-> <<>>, start_date |-> None, end_date |-> None,
     contact_identifiers |-> <<>>, conversation_id |-> None,
     show_only_my_messages |-> FALSE, show_only_attachments |-> FALSE,
     sort_direction |-> <<"d", "e", "s", "c">>, conversation_type |-> "all"]


\* the requests that differ from the empty request in one more field than
\* those of P
VaryOnce(P) ==
    P \cup {[p EXCEPT !.query = v] : p \in P, v \in Queries}
      \cup {[p EXCEPT !.start_date = v] : p \in P, v \in Dates}
      \cup {[p EXCEPT !.end_date = v] : p \in P, v \in Dates}
      \cup {[p EXCEPT !.contact_identifiers = v] :
               p \in P, v \in SeqsUpTo(IdentifierPool, MaxIdentifiers)}
      \cup {[p EXCEPT !.conversation_id = v] : p \in P, v \in ConversationIds}
      \cup {[p EXCEPT !.show_only_my_messages = v] : p \in P, v \in BOOLEAN}
      \cup {[p EXCEPT !.show_only_attachments = v] : p \in P, v \in BOOLEAN}
      \cup {[p EXCEPT !.sort_direction = v] : p \in P, v \in SortDirections}
      \cup {[p EXCEPT !.conversation_type = v] : p \in P, v \in ConversationTypes}

RECURSIVE Vary(_, _)
Vary(P, k) == IF k = 0 THEN P ELSE Vary(VaryOnce(P), k - 1)

MaxVaried == 2

\* every combination of present and absent filters, on fixed values
Shapes ==
    [query : {<<>>, <<"h", "i">>},
     start_date : {None, Some(<<"2", "0", "2", "4", "-", "0", "1", "-", "0", "1">>)},
     end_date : {None, Some(<<"2", "0", "2", "4", "-", "0", "1", "-", "0", "2">>)},
     contact_identifiers : {<<>>, << [contact_id |-> Some(<<"+", "1", "4", "1", "5", "5", "5", "5", "0", "1", "0", "0">>),
                                      phones |-> << <<"+", "1", " ", "(", "4", "1", "5", ")", " ", "5", "5", "5", "-", "0", "1", "0", "0">> >>, emails |-> <<>>] >>},
     conversation_id : {None, Some(<<"2">>)},
     show_only_my_messages : BOOLEAN,
     show_only_attachments : BOOLEAN,
     sort_direction : {<<"d", "e", "s", "c">>},
     conversation_type : {"all", "direct"}]

\* values beyond the documented ones: a blank query, a query that spells a
\* FROM: directive, sort directions other than "asc" and "desc", conversation
\* types other than "all", "direct" and "group", and identifiers that
\* contribute no condition (a phone without a digit; nothing at all)
FromDirective == <<"F", "R", "O", "M", ":", "\"", "a", " ", "b", "\"">>

WideQueries == {<<" ", " ">>, FromDirective}

WideSortDirections == {<<"a", "s", "c", " ", "-", "-">>, <<"d", "o", "w", "n">>, <<"D", "e", "s", "c">>}

WideConversationTypes == {"ALL", "Direct"}

\* strings that are no calendar date, and a date written without padding
WideDates == {Some(<<"s", "o", "o", "n">>), Some(<<"2", "0", "2", "4", "-", "1", "3", "-", "0", "1">>), Some(<<"2", "0", "2", "4", "-", "1", "-", "5">>)}

WideIdentifiers ==
    LET known == CHOOSE x \in IdentifierPool : x.contact_id.some /\ x.emails = <<>> /\ Len(x.phones) = 1
        mute  == [contact_id |-> None, phones |-> << <<"n", "/", "a">> >>, emails |-> <<>>]
        bare  == [contact_id |-> None, phones |-> <<>>, emails |-> <<>>]
    IN  {<<mute>>, <<bare>>, <<mute, known>>, <<bare, mute>>}

\* the request with every filter present
FullShape ==
    CHOOSE p \in Shapes :
        /\ p.query # <<>> /\ p.start_date.some /\ p.end_date.some
        /\ p.contact_identifiers # <<>> /\ p.conversation_id.some
        /\ p.show_only_my_messages /\ p.show_only_attachments
        /\ p.conversation_type # "all"

\* the empty request and the full one, with one field set to such a value
Probes ==
    LET P == {NoParams, FullShape}
    IN  {[p EXCEPT !.query = v] : p \in P, v \in WideQueries}
        \cup {[p EXCEPT !.sort_direction = v] : p \in P, v \in WideSortDirections}
        \cup {[p EXCEPT !.conversation_type = v] : p \in P, v \in WideConversationTypes}
        \cup {[p EXCEPT !.contact_identifiers = v] : p \in P, v \in WideIdentifiers}
        \cup {[p EXCEPT !.start_date = v] : p \in P, v \in WideDates}
        \cup {[p EXCEPT !.end_date = v] : p \in P, v \in WideDates}

\* the requests of the model: every shape, every request that differs
\* from the empty one in at most MaxVaried fields, and the probes
SearchParams == Shapes \cup Vary({NoParams}, MaxVaried) \cup Probes

(***************************************************************************)
(* One invocation of search_messages, step by step                         *)
(***************************************************************************)

VARIABLES
    pc,        \* where the invocation stands
    params,    \* its SearchParams
    sql,       \* the query text composed so far
    failure,   \* what failed in this invocation, if anything: "locate", "open",
               \* "prepare" and "step" are failures of the store; "compile" and
               \* "bind" are the store refusing the composed text
    result     \* what the invocation returned

vars == <<pc, params, sql, failure, result>>

NoResult == [kind |-> "none"]
Ok(messages) == [kind |-> "Ok", messages |-> messages]
Err(error) == [kind |-> "Err", error |-> error]
Panic == [kind |-> "Panic"]

Init ==
    /\ pc = "idle"
    /\ params = NoParams
    /\ sql = <<>>
    /\ failure = "none"
    /\ result = NoResult

\* the command is invoked with some SearchParams
Invoke(p) ==
    /\ pc = "idle"
    /\ pc' = "locate"
    /\ params' = p
    /\ UNCHANGED <<sql, failure, result>>

\* get_imessage_db_path()?: the home directory, the existence of chat.db,
\* the ls probe and the trial open decide
GetImessageDbPath(outcome) ==
    /\ pc = "locate"
    /\ IF outcome = "ok"
       THEN pc' = "open" /\ UNCHANGED <<failure, result>>
       ELSE /\ pc' = "done"
            /\ failure' = "locate"
            /\ result' = Err(CASE outcome = "no_home" -> "OtherError"
                               [] outcome = "not_found" -> "DatabaseNotFound"
                               [] OTHER -> "PermissionError")
    /\ UNCHANGED <<params, sql>>

LocateOutcomes == {"ok", "no_home", "not_found", "ls_error", "ls_denied", "open_denied"}

\* Connection::open(&db_path).map_err(AppError::DatabaseConnectionError)?
ConnectionOpen(ok) ==
    /\ pc = "open"
    /\ IF ok
       THEN pc' = "compose" /\ UNCHANGED <<failure, result>>
       ELSE pc' = "done" /\ failure' = "open" /\ result' = Err("DatabaseConnectionError")
    /\ UNCHANGED <<params, sql>>

\* lines 907-1050: the text is built; a date conversion that overflows
\* under overflow checks ends the invocation in a panic
Compose(start_ts, end_ts) ==
    /\ pc = "compose"
    /\ start_ts \in DateOutcomes(params.start_date)
    /\ end_ts \in DateOutcomes(params.end_date)
    /\ IF start_ts.kind = "panic" \/ end_ts.kind = "panic"
       THEN pc' = "done" /\ result' = Panic /\ UNCHANGED sql
       ELSE pc' = "prepare" /\ sql' = ComposeSql(params, start_ts, end_ts) /\ UNCHANGED result
    /\ UNCHANGED <<params, failure>>

\* conn.prepare(&sql)?: the store rejects a text it cannot compile, and may
\* fail on its own account (storeOk = FALSE: a missing table, a busy or
\* damaged file)
Prepare(storeOk) ==
    /\ pc = "prepare"
    /\ IF storeOk /\ ~PrepareFails(sql)
       THEN pc' = "query" /\ UNCHANGED <<failure, result>>
       ELSE /\ pc' = "done"
            /\ failure' = IF storeOk THEN "compile" ELSE "prepare"
            /\ result' = Err("DatabaseQueryError")
    /\ UNCHANGED <<params, sql>>

\* lines 1055-1105: query_map binds no parameter and fails when the
\* statement has one; then the loop steps the statement.  failAt = 0: no
\* step fails.  failAt = k > 0: the step after k - 1 rows fails; the
\* iterator yields that error as an item and ends.
QueryRows(failAt) ==
    /\ pc = "query"
    /\ pc' = "done"
    /\ IF ParameterCount(sql) # 0
       THEN /\ failAt = 0
            /\ failure' = "bind"
            /\ result' = Err("DatabaseQueryError")
       ELSE LET rows == ResultRows(sql)
            IN  /\ failAt \in 0..Len(rows)
                /\ failure' = IF failAt = 0 THEN "none" ELSE "step"
                /\ result' = Ok(CollectMessages(
                       IF failAt = 0 THEN rows ELSE SubSeq(rows, 1, failAt - 1)))
    /\ UNCHANGED <<params, sql>>

\* the caller has the result; the next invocation starts afresh
Return ==
    /\ pc = "done"
    /\ pc' = "idle"
    /\ params' = NoParams
    /\ sql' = <<>>
    /\ failure' = "none"
    /\ result' = NoResult

Next ==
    \/ pc = "idle" /\ \E p \in SearchParams : Invoke(p)
    \/ pc = "locate" /\ \E outcome \in LocateOutcomes : GetImessageDbPath(outcome)
    \/ pc = "open" /\ \E ok \in BOOLEAN : ConnectionOpen(ok)
    \/ pc = "compose" /\ \E start_ts \in DateOutcomes(params.start_date),
                            end_ts \in DateOutcomes(params.end_date) : Compose(start_ts, end_ts)
    \/ pc = "prepare" /\ \E storeOk \in BOOLEAN : Prepare(storeOk)
    \/ pc = "query" /\ \E failAt \in 0..Len(ResultRows(sql)) : QueryRows(failAt)
    \/ Return

Spec == Init /\ [][Next]_vars

(***************************************************************************)
(* Concurrent invocations.  search_messages is an async command: the UI    *)
(* may have several invocations in flight, and each runs the steps above   *)
(* on its own parameters and locals (db_path, conn, sql, stmt, messages).  *)
(* Under SpecConcurrent every variable holds one value per invocation, and *)
(* the steps of the invocations interleave.  The store is only read.       *)
(***************************************************************************)
MaxInvocations == 2

Invocations == 1..MaxInvocations

\* the requests of the concurrent invocations
ConcurrentParams ==
    {[NoParams EXCEPT !.query = <<"h", "i">>],
     [NoParams EXCEPT !.conversation_id = Some(<<"2">>), !.sort_direction = <<"a", "s", "c">>]}

\* invocation i's instance of an argument or a local: function arguments
\* and `let` bindings belong to the invocation that runs the function
Own_Shared(locals, i) == locals[1]

Own(locals, i) == locals[i]

ConcurrentInit ==
    /\ pc = [i \in Invocations |-> "idle"]
    /\ params = [i \in Invocations |-> NoParams]
    /\ sql = [i \in Invocations |-> <<>>]
    /\ failure = [i \in Invocations |-> "none"]
    /\ result = [i \in Invocations |-> NoResult]

InvokeBy(i, p) ==
    /\ pc[i] = "idle"
    /\ pc' = [pc EXCEPT ![i] = "locate"]
    /\ params' = [params EXCEPT ![i] = p]
    /\ UNCHANGED <<sql, failure, result>>

GetImessageDbPathBy(i, outcome) ==
    /\ pc[i] = "locate"
    /\ IF outcome = "ok"
       THEN pc' = [pc EXCEPT ![i] = "open"] /\ UNCHANGED <<failure, result>>
       ELSE /\ pc' = [pc EXCEPT ![i] = "done"]
            /\ failure' = [failure EXCEPT ![i] = "locate"]
            /\ result' = [result EXCEPT ![i] =
                              Err(CASE outcome = "no_home" -> "OtherError"
                                    [] outcome = "not_found" -> "DatabaseNotFound"
                                    [] OTHER -> "PermissionError")]
    /\ UNCHANGED <<params, sql>>

ConnectionOpenBy(i, ok) ==
    /\ pc[i] = "open"
    /\ IF ok
       THEN pc' = [pc EXCEPT ![i] = "compose"] /\ UNCHANGED <<failure, result>>
       ELSE /\ pc' = [pc EXCEPT ![i] = "done"]
            /\ failure' = [failure EXCEPT ![i] = "open"]
            /\ result' = [result EXCEPT ![i] = Err("DatabaseConnectionError")]
    /\ UNCHANGED <<params, sql>>

ComposeBy(i, start_ts, end_ts) ==
    /\ pc[i] = "compose"
    /\ start_ts \in DateOutcomes(Own(params, i).start_date)
    /\ end_ts \in DateOutcomes(Own(params, i).end_date)
    /\ IF start_ts.kind = "panic" \/ end_ts.kind = "panic"
       THEN /\ pc' = [pc EXCEPT ![i] = "done"]
            /\ result' = [result EXCEPT ![i] = Panic]
            /\ UNCHANGED sql
       ELSE /\ pc' = [pc EXCEPT ![i] = "prepare"]
            /\ sql' = [sql EXCEPT ![i] = ComposeSql(Own(params, i), start_ts, end_ts)]
            /\ UNCHANGED result
    /\ UNCHANGED <<params, failure>>

PrepareBy(i, storeOk) ==
    /\ pc[i] = "prepare"
    /\ IF storeOk /\ ~PrepareFails(Own(sql, i))
       THEN pc' = [pc EXCEPT ![i] = "query"] /\ UNCHANGED <<failure, result>>
       ELSE /\ pc' = [pc EXCEPT ![i] = "done"]
            /\ failure' = [failure EXCEPT ![i] = IF storeOk THEN "compile" ELSE "prepare"]
            /\ result' = [result EXCEPT ![i] = Err("DatabaseQueryError")]
    /\ UNCHANGED <<params, sql>>

QueryRowsBy(i, failAt) ==
    /\ pc[i] = "query"
    /\ pc' = [pc EXCEPT ![i] = "done"]
    /\ IF ParameterCount(Own(sql, i)) # 0
       THEN /\ failAt = 0
            /\ failure' = [failure EXCEPT ![i] = "bind"]
            /\ result' = [result EXCEPT ![i] = Err("DatabaseQueryError")]
       ELSE LET rows == ResultRows(Own(sql, i))
            IN  /\ failAt \in 0..Len(rows)
                /\ failure' = [failure EXCEPT ![i] = IF failAt = 0 THEN "none" ELSE "step"]
                /\ result' = [result EXCEPT ![i] = Ok(CollectMessages(
                       IF failAt = 0 THEN rows ELSE SubSeq(rows, 1, failAt - 1)))]
    /\ UNCHANGED <<params, sql>>

ReturnBy(i) ==
    /\ pc[i] = "done"
    /\ pc' = [pc EXCEPT ![i] = "idle"]
    /\ params' = [params EXCEPT ![i] = NoParams]
    /\ sql' = [sql EXCEPT ![i] = <<>>]
    /\ failure' = [failure EXCEPT ![i] = "none"]
    /\ result' = [result EXCEPT ![i] = NoResult]

ConcurrentNext ==
    \E i \in Invocations :
        \/ \E p \in ConcurrentParams : InvokeBy(i, p)
        \/ \E outcome \in LocateOutcomes : GetImessageDbPathBy(i, outcome)
        \/ \E ok \in BOOLEAN : ConnectionOpenBy(i, ok)
        \/ pc[i] = "compose" /\ \E start_ts \in DateOutcomes(Own(params, i).start_date),
                                    end_ts \in DateOutcomes(Own(params, i).end_date) :
                                    ComposeBy(i, start_ts, end_ts)
        \/ \E storeOk \in BOOLEAN : PrepareBy(i, storeOk)
        \/ pc[i] = "query" /\ \E failAt \in 0..Len(StoreRows) : QueryRowsBy(i, failAt)
        \/ ReturnBy(i)

SpecConcurrent == ConcurrentInit /\ [][ConcurrentNext]_vars

(***************************************************************************)
(* check_permissions (lines 1263-1315) with check_messages_permission      *)
(* (1219-1260) and check_contacts_permission (1164-1217).  Under           *)
(* SpecPermissions the variables hold: params, what each system call of    *)
(* the invocation meets (the outcome it has when it is made); sql, the     *)
(* checks called so far, in order; failure, the locals messages_result and *)
(* contacts_result; result, the value returned.                            *)
(***************************************************************************)
OkBool(value) == [kind |-> "Ok", value |-> value]

\* locate: the outcome of get_imessage_db_path.  open: Connection::open
\* opens, fails with "unable to open database file", or fails with another
\* message.  osascript: Command::output() is Err, Ok with a successful
\* status, or Ok with a failing status.  home, sources_exists, read_dir:
\* the three steps of the file-system fallback succeed or not.
Environments ==
    [locate : LocateOutcomes, open : {"ok", "unable", "other"},
     osascript : {"spawn_failed", "success", "failure"},
     home : BOOLEAN, sources_exists : BOOLEAN, read_dir : BOOLEAN]

\* the Result of get_imessage_db_path
LocateResult(outcome) ==
    CASE outcome = "ok" -> [kind |-> "Ok"]
      [] outcome = "no_home" -> Err("OtherError")
      [] outcome = "not_found" -> Err("DatabaseNotFound")
      [] OTHER -> Err("PermissionError")

check_messages_permission(env) ==
    LET path == LocateResult(env.locate)
    IN  IF path.kind = "Ok"
        THEN CASE env.open = "ok" -> OkBool(TRUE)
               [] env.open = "unable" -> OkBool(FALSE)
               [] OTHER -> Err("DatabaseConnectionError")
        ELSE IF path.error = "DatabaseNotFound" THEN OkBool(FALSE) ELSE path

check_contacts_permission(env) ==
    IF env.osascript = "success" THEN OkBool(TRUE)
    ELSE IF ~env.home THEN Err("OtherError")
    ELSE IF ~env.sources_exists THEN OkBool(FALSE)
    ELSE OkBool(env.read_dir)

\* the Err arm of the two matches of check_permissions passing the error on
\* to the caller, as `?` would
ErrArm_Propagate(e) == e

\* the Err arm of the two matches of check_permissions: return Ok(false)
ErrArm(e) == OkBool(FALSE)

PermissionsInit ==
    /\ pc = "idle"
    /\ params \in Environments
    /\ sql = <<>>
    /\ failure = [messages_result |-> "unset", contacts_result |-> "unset"]
    /\ result = NoResult

\* the command is invoked; it sleeps 500 ms before the first check
InvokeCheckPermissions ==
    /\ pc = "idle"
    /\ pc' = "messages"
    /\ UNCHANGED <<params, sql, failure, result>>

\* let messages_result = match check_messages_permission() { ... };
\* if !messages_result { return Ok(false); }
MessagesCheck ==
    /\ pc = "messages"
    /\ sql' = Append(sql, "check_messages_permission")
    /\ LET checked == check_messages_permission(params)
       IN  IF checked.kind = "Err"
           THEN pc' = "done" /\ result' = ErrArm(checked) /\ UNCHANGED failure
           ELSE /\ failure' = [failure EXCEPT !.messages_result = checked.value]
                /\ IF ~checked.value
                   THEN pc' = "done" /\ result' = OkBool(FALSE)
                   ELSE pc' = "contacts" /\ UNCHANGED result
    /\ UNCHANGED params

\* let contacts_result = match check_contacts_permission() { ... };
ContactsCheck ==
    /\ pc = "contacts"
    /\ sql' = Append(sql, "check_contacts_permission")
    /\ LET checked == check_contacts_permission(params)
       IN  IF checked.kind = "Err"
           THEN pc' = "done" /\ result' = ErrArm(checked) /\ UNCHANGED failure
           ELSE /\ failure' = [failure EXCEPT !.contacts_result = checked.value]
                /\ pc' = "combine"
                /\ UNCHANGED result
    /\ UNCHANGED params

\* if messages_result && contacts_result { Ok(true) } else { match ... }
Combine ==
    /\ pc = "combine"
    /\ pc' = "done"
    /\ IF failure.messages_result /\ failure.contacts_result
       THEN result' = OkBool(TRUE)
       ELSE result' = IF <<failure.messages_result, failure.contacts_result>> = <<TRUE, TRUE>>
                      THEN Panic  \* unreachable!()
                      ELSE OkBool(FALSE)
    /\ UNCHANGED <<params, sql, failure>>

\* the caller has the answer; the next invocation meets any environment
ReturnPermissions ==
    /\ pc = "done"
    /\ pc' = "idle"
    /\ params' \in Environments
    /\ sql' = <<>>
    /\ failure' = [messages_result |-> "unset", contacts_result |-> "unset"]
    /\ result' = NoResult

PermissionsNext ==
    \/ InvokeCheckPermissions
    \/ MessagesCheck
    \/ ContactsCheck
    \/ Combine
    \/ ReturnPermissions

SpecPermissions == PermissionsInit /\ [][PermissionsNext]_vars

(***************************************************************************)
(* read_contacts (lines 281-631) with get_addressbook_db_path (239-278),   *)
(* invoked concurrently.  Every invocation copies AddressBook-v22.abcddb   *)
(* onto the one path AddressBook-v22.db and then opens and queries that    *)
(* copy; nothing in the file orders the steps of one invocation with those *)
(* of another.  Under SpecContacts the variables hold: params, the file    *)
(* AddressBook-v22.db (whether it exists, and which invocations are in the *)
(* middle of fs::copy onto it); pc, failure and result, one value per      *)
(* invocation; sql, per invocation, how it found the file at its           *)
(* Connection::open and at each query it ran since.                        *)
(***************************************************************************)
\* basic_query, legacy_query, email_query, phone_query
ContactQueries == <<"basic_query", "legacy_query", "email_query", "phone_query">>

\* how a reader finds the copy: fs::copy truncates the destination and
\* writes it anew, so while a copy is under way the file is incomplete
Found(file) == IF file.writers # {} THEN "overwritten" ELSE "whole"

\* ContactResponse, by whether the contacts were read from the copy
ContactResponse(contacts) == [kind |-> "Ok", contacts |-> contacts]

ContactsInit ==
    /\ pc = [i \in Invocations |-> "idle"]
    /\ params \in [exists : BOOLEAN, writers : {{}}]
    /\ sql = [i \in Invocations |-> <<>>]
    /\ failure = [i \in Invocations |-> "none"]
    /\ result = [i \in Invocations |-> NoResult]

InvokeReadContacts(i) ==
    /\ pc[i] = "idle"
    /\ pc' = [pc EXCEPT ![i] = "locate"]
    /\ UNCHANGED <<params, sql, failure, result>>

\* get_addressbook_db_path up to the call of fs::copy: the system address
\* book is found or not; when found, fs::copy opens the destination for
\* writing
GetAddressbookDbPath(i, found) ==
    /\ pc[i] = "locate"
    /\ IF found
       THEN /\ pc' = [pc EXCEPT ![i] = "copy"]
            /\ params' = [exists |-> TRUE, writers |-> params.writers \cup {i}]
            /\ UNCHANGED <<failure, result>>
       ELSE /\ pc' = [pc EXCEPT ![i] = "done"]
            /\ failure' = [failure EXCEPT ![i] = "locate"]
            /\ result' = [result EXCEPT ![i] = ContactResponse("none")]
            /\ UNCHANGED params
    /\ UNCHANGED sql

\* fs::copy returns
CopyReturns(i, ok) ==
    /\ pc[i] = "copy"
    /\ params' = [params EXCEPT !.writers = @ \ {i}]
    /\ IF ok
       THEN pc' = [pc EXCEPT ![i] = "open"] /\ UNCHANGED <<failure, result>>
       ELSE /\ pc' = [pc EXCEPT ![i] = "done"]
            /\ failure' = [failure EXCEPT ![i] = "copy"]
            /\ result' = [result EXCEPT ![i] = ContactResponse("none")]
    /\ UNCHANGED sql

\* Connection::open(&db_path)
OpenAddressBook(i, ok) ==
    /\ pc[i] = "open"
    /\ sql' = [sql EXCEPT ![i] = <<Found(params)>>]
    /\ IF ok
       THEN pc' = [pc EXCEPT ![i] = "query"] /\ UNCHANGED <<failure, result>>
       ELSE /\ pc' = [pc EXCEPT ![i] = "done"]
            /\ failure' = [failure EXCEPT ![i] = "open"]
            /\ result' = [result EXCEPT ![i] = ContactResponse("none")]
    /\ UNCHANGED params

\* the next of the four queries; an error of prepare or query_map is
\* passed over (Err(_) => {})
RunQuery(i) ==
    /\ pc[i] = "query"
    /\ sql' = [sql EXCEPT ![i] = Append(@, Found(params))]
    /\ IF Len(sql[i]) = Len(ContactQueries)
       THEN /\ pc' = [pc EXCEPT ![i] = "done"]
            /\ result' = [result EXCEPT ![i] = ContactResponse("read")]
       ELSE UNCHANGED <<pc, result>>
    /\ UNCHANGED <<params, failure>>

ReturnContacts(i) ==
    /\ pc[i] = "done"
    /\ pc' = [pc EXCEPT ![i] = "idle"]
    /\ sql' = [sql EXCEPT ![i] = <<>>]
    /\ failure' = [failure EXCEPT ![i] = "none"]
    /\ result' = [result EXCEPT ![i] = NoResult]
    /\ UNCHANGED params

ContactsNext ==
    \E i \in Invocations :
        \/ InvokeReadContacts(i)
        \/ \E found \in BOOLEAN : GetAddressbookDbPath(i, found)
        \/ \E ok \in BOOLEAN : CopyReturns(i, ok)
        \/ \E ok \in BOOLEAN : OpenAddressBook(i, ok)
        \/ RunQuery(i)
        \/ ReturnContacts(i)

SpecContacts == ContactsInit /\ [][ContactsNext]_vars

(***************************************************************************)
(* The two row closures on any row: the one of search_messages (lines      *)
(* 1055-1095, MapRow above) and the one of get_messages (lines 806-848).   *)
(* Under SpecMapper the variables hold: params, the row the statement      *)
(* yields (with c.display_name, which only get_messages selects); sql, the *)
(* command whose closure ran; failure, the conversation_id argument of     *)
(* get_messages; result, the messages pushed for the row.                  *)
(***************************************************************************)
\* rows over every storage class the closures tell apart (the flag also as
\* the REAL 1.0, which does not decode as i64)
MapperRows ==
    [message_id : {7},
     text : {Text(<<"h", "i">>), Null, Blob(<<"h", "i">>)},
     date : {Integer(<<8400, 43200, 0>>), Null},
     is_from_me : {Integer(0), Integer(1), Integer(2), Null, [t |-> "real", v |-> 1]},
     chat_id : {1},
     h_id : {Text(<<"a", "@", "x">>), Null, Blob(<<"a", "@", "x">>)},
     h_uncanonicalized_id : {Null, Text(<<"A", "@", "X">>)},
     attachments : {<<>>, <<Text(<<"a", ".", "p", "n", "g">>)>>},
     display_name : {Null, Text(<<"g">>), Blob(<<"g">>)}]

\* the closure of get_messages returns Err when row.get(1)? or row.get(6)?
\* does not decode as Option<String>
GetMessagesRowDecodes(row) ==
    row.text.t \in {"text", "null"} /\ row.display_name.t \in {"text", "null"}

\* the Message the closure of get_messages builds
GetMessagesRow(row, conversation_id) ==
    LET is_from_me == row.is_from_me.t = "int" /\ row.is_from_me.v = 1
    IN  [id |-> row.message_id,
         text |-> IF row.text.t = "text" THEN row.text.v ELSE Placeholder,
         date |-> IF row.date.t = "int" THEN apple_time_to_unix(NsDivNanos(row.date.v))
                  ELSE <<0, 0>>,
         is_from_me |-> is_from_me,
         chat_id |-> Some(conversation_id),
         sender_name |-> IF sender_id(row).t = "text" /\ ~is_from_me
                         THEN Some(sender_id(row).v) ELSE None,
         attachment_path |-> IF attachment_path(row).t = "text"
                             THEN Some(attachment_path(row).v) ELSE None,
         conversation_name |-> IF row.display_name.t = "text"
                               THEN Some(row.display_name.v) ELSE None]

MapperInit ==
    /\ pc = "row"
    /\ params \in MapperRows
    /\ sql = "none"
    /\ failure = <<>>
    /\ result = NoResult

\* search_messages steps to the row: its closure and its collecting loop
SearchMessagesMaps ==
    /\ pc = "row"
    /\ pc' = "mapped"
    /\ sql' = "search_messages"
    /\ result' = Ok(CollectMessages(<<params>>))
    /\ UNCHANGED <<params, failure>>

\* get_messages(conversation_id) steps to the row; conversation_id parses
\* as the row's chat
GetMessagesMaps(conversation_id) ==
    /\ pc = "row"
    /\ ParseI64(conversation_id) = <<0, 0, params.chat_id>>
    /\ pc' = "mapped"
    /\ sql' = "get_messages"
    /\ failure' = conversation_id
    /\ result' = Ok(IF GetMessagesRowDecodes(params)
                    THEN <<GetMessagesRow(params, conversation_id)>> ELSE <<>>)
    /\ UNCHANGED params

\* the statement yields another row
NextRow ==
    /\ pc = "mapped"
    /\ pc' = "row"
    /\ params' \in MapperRows
    /\ sql' = "none"
    /\ failure' = <<>>
    /\ result' = NoResult

MapperNext ==
    \/ SearchMessagesMaps
    \/ \E conversation_id \in {<<"1">>, <<"0", "1">>} : GetMessagesMaps(conversation_id)
    \/ NextRow

SpecMapper == MapperInit /\ [][MapperNext]_vars

(***************************************************************************)
(* Reading the composed text back                                          *)
(***************************************************************************)

Composed == pc \in {"prepare", "query"} \/ (pc = "done" /\ sql # <<>>)

\* the opening pieces of the clauses of the text, in their order
ClauseHeads(text) ==
    LET at == HeadIdx(text)
    IN  [k \in 1..Cardinality(at) |->
            text[CHOOSE i \in at : Cardinality({j \in at : j <= i}) = k]]

HasClause(text, head) == \E c \in Clauses(text) : c[1] = head

\* the clause that opens with head (there is at most one)
TheClause(text, head) == CHOOSE c \in Clauses(text) : c[1] = head

\* the outcome of a date conversion that composes a text
Converted(date) == CHOOSE o \in DateOutcomes(date) : o.kind # "panic"

\* u64 parsing of a conversation id: digits only
IsNonNegativeInteger(s) == s # <<>> /\ \A i \in 1..Len(s) : s[i] \in Digits

(***************************************************************************)
(* C1  A conversation_id that is no non-negative integer makes the search  *)
(* return an empty result set: the raw value is never the filter of the    *)
(* composed text, and the invocation ends in Ok with no message.           *)
(***************************************************************************)
C1_NonNumericConversationIdFailsClosed ==
    (/\ pc = "done"
     /\ sql # <<>>
     /\ failure \in {"none", "compile", "bind"}
     /\ params.conversation_id.some
     /\ ~IsNonNegativeInteger(params.conversation_id.val))
    => /\ result = Ok(<<>>)
       /\ ~(HasClause(sql, ConvPre)
            /\ Tail(TheClause(sql, ConvPre)) = params.conversation_id.val)

(***************************************************************************)
(* C2  Free text and identifier values reach the store only as bound       *)
(* parameters: two requests that differ only in the query text, a contact  *)
(* id, a phone's digits, an email or the conversation id compose the same  *)
(* query text.                                                             *)
(***************************************************************************)
SameIdentifierShape(a, b) ==
    /\ a.contact_id.some = b.contact_id.some
    /\ Len(a.phones) = Len(b.phones)
    /\ \A i \in 1..Len(a.phones) :
          (normalize_phone_number(a.phones[i]) = <<>>)
              = (normalize_phone_number(b.phones[i]) = <<>>)
    /\ Len(a.emails) = Len(b.emails)

\* p and q differ in nothing but values of the free text and identifiers
DifferOnlyInValues(p, q) ==
    /\ TrimIsEmpty(p.query) = TrimIsEmpty(q.query)
    /\ p.conversation_id.some = q.conversation_id.some
    /\ Len(p.contact_identifiers) = Len(q.contact_identifiers)
    /\ \A i \in 1..Len(p.contact_identifiers) :
          SameIdentifierShape(p.contact_identifiers[i], q.contact_identifiers[i])
    /\ p.start_date = q.start_date
    /\ p.end_date = q.end_date
    /\ p.show_only_my_messages = q.show_only_my_messages
    /\ p.show_only_attachments = q.show_only_attachments
    /\ p.sort_direction = q.sort_direction
    /\ p.conversation_type = q.conversation_type

C2_ValuesAreBoundParameters ==
    pc = "prepare" =>
        \A q \in SearchParams :
            DifferOnlyInValues(params, q)
            => ComposeSql(q, Converted(q.start_date), Converted(q.end_date)) = sql

(***************************************************************************)
(* C3  The clauses present in the composed text appear in one fixed order. *)
(* As claimed: text, date-after, date-before, sender group, conversation   *)
(* id, my-messages flag, attachment flag, conversation kind.               *)
(* As composed: text, sender group, conversation id, date-after,           *)
(* date-before, my-messages flag, attachment flag, conversation kind;      *)
(* the ORDER BY piece closes the text.                                     *)
(***************************************************************************)
ClaimedOrder ==
    <<TextPre, AfterPre, BeforePre, SenderPre, ConvPre, MineClause, AttachClause,
      TypePre, OrderPre>>

ComposedOrder ==
    <<TextPre, SenderPre, ConvPre, AfterPre, BeforePre, MineClause, AttachClause,
      TypePre, OrderPre>>

Rank(order, head) == CHOOSE i \in 1..Len(order) : order[i] = head

\* the opening pieces of the text follow order, none twice
FollowsOrder(text, order) ==
    LET hs == ClauseHeads(text)
    IN  \A i \in 1..Len(hs), j \in 1..Len(hs) :
            i < j => Rank(order, hs[i]) < Rank(order, hs[j])

\* the clauses a request calls for
Wanted(p) ==
    {OrderPre}
    \cup (IF ~TrimIsEmpty(p.query) THEN {TextPre} ELSE {})
    \cup (IF SenderClause(p) # <<>> THEN {SenderPre} ELSE {})
    \cup (IF p.conversation_id.some THEN {ConvPre} ELSE {})
    \cup (IF Converted(p.start_date).kind = "some" THEN {AfterPre} ELSE {})
    \cup (IF Converted(p.end_date).kind = "some" THEN {BeforePre} ELSE {})
    \cup (IF p.show_only_my_messages THEN {MineClause} ELSE {})
    \cup (IF p.show_only_attachments THEN {AttachClause} ELSE {})
    \cup (IF p.conversation_type # "all" THEN {TypePre} ELSE {})

C3_ClaimedClauseOrder == Composed => FollowsOrder(sql, ClaimedOrder)

C3_ClauseOrder ==
    Composed =>
        /\ sql[1] = BaseSql
        /\ {sql[i] : i \in HeadIdx(sql)} = Wanted(params)
        /\ FollowsOrder(sql, ComposedOrder)

C3_Witness ==
    /\ pc = "prepare"
    /\ ClauseHeads(sql) = ComposedOrder

(***************************************************************************)
(* C4  A failure of the store (locating or opening it, preparing or        *)
(* executing the query) makes the invocation return an error value, never  *)
(* Ok with an empty or truncated list.                                     *)
(***************************************************************************)
C4_StoreFailureIsAnError ==
    (pc = "done" /\ failure # "none") => result.kind = "Err"

(***************************************************************************)
(* The bounds of a composed text, and the store time of a Unix time as the *)
(* specification gives it: (unix_seconds - 978307200) * 1_000_000_000,     *)
(* an integer of any size.                                                 *)
(***************************************************************************)
AfterValue(text) == ParseI64(Tail(TheClause(text, AfterPre)))
BeforeValue(text) == ParseI64(Tail(TheClause(text, BeforePre)))

StoreTime(unix) == <<unix[1] - 11323, unix[2], 0>>

\* Unix seconds of h:mi:s on the calendar date a string denotes
UnixAt(date_str, h, mi, s) ==
    LET ymd == ParseDate(date_str).val
    IN  <<DaysFromCivil(ymd[1], ymd[2], ymd[3]), h * 3600 + mi * 60 + s>>

IsDate(date) == date.some /\ ParseDate(date.val).some

(***************************************************************************)
(* C5  The "after" bound (start_date) is the store time of 00:00:00 of the *)
(* given calendar date, only the "before" bound (end_date) is moved to     *)
(* 23:59:59; for one and the same calendar date the after bound is         *)
(* strictly smaller than the before bound.                                 *)
(***************************************************************************)
C5_AfterBoundIsStartOfDay ==
    (pc = "prepare" /\ IsDate(params.start_date)) =>
        /\ HasClause(sql, AfterPre)
        /\ AfterValue(sql) = StoreTime(UnixAt(params.start_date.val, 0, 0, 0))
        /\ (IsDate(params.end_date)
            /\ ParseDate(params.end_date.val) = ParseDate(params.start_date.val))
           => /\ HasClause(sql, BeforePre)
              /\ NsLess(AfterValue(sql), BeforeValue(sql))

(***************************************************************************)
(* C6  For every end_date D in YYYY-MM-DD form the before bound of the     *)
(* query is (unix_seconds(D at 23:59:59) - 978307200) * 1_000_000_000, and *)
(* the conversion always delivers it.                                      *)
(***************************************************************************)
C6_BeforeBoundIsEndOfDay ==
    /\ (pc = "prepare" /\ IsDate(params.end_date)) =>
           /\ HasClause(sql, BeforePre)
           /\ BeforeValue(sql) = StoreTime(UnixAt(params.end_date.val, 23, 59, 59))
    /\ (pc = "done" /\ IsDate(params.end_date) /\ ~IsDate(params.start_date)) =>
           result # Panic

(***************************************************************************)
(* C7  Time conversion round-trips.  A Unix time t that the composer       *)
(* converts to store time is t again after the mapper's conversion         *)
(* (store_ns / 1_000_000_000 + 978307200); a store value ns that the       *)
(* mapper converts to Unix seconds is, converted back, ns truncated to a   *)
(* whole second.                                                           *)
(***************************************************************************)
\* ns without its fraction of a second (toward zero, as i64 division does)
TruncatedToSecond(ns) ==
    IF ns[1] >= 0 THEN <<ns[1], ns[2], 0>>
    ELSE LET a == NsSub(<<0, 0, 0>>, ns)
         IN  NsSub(<<0, 0, 0>>, <<a[1], a[2], 0>>)

\* the mapper's conversion of a store time
MapperUnix(ns) == apple_time_to_unix(NsDivNanos(ns))

StoreRowOf(id) == CHOOSE r \in {StoreRows[i] : i \in 1..Len(StoreRows)} : r.message_id = id

C7_TimeRoundTrips ==
    /\ (pc = "prepare" /\ IsDate(params.start_date)) =>
           MapperUnix(AfterValue(sql)) = UnixAt(params.start_date.val, 23, 59, 59)
    /\ (pc = "prepare" /\ IsDate(params.end_date)) =>
           MapperUnix(BeforeValue(sql)) = UnixAt(params.end_date.val, 23, 59, 59)
    /\ (pc = "done" /\ result.kind = "Ok") =>
           \A i \in 1..Len(result.messages) :
               LET ns == StoreRowOf(result.messages[i].id).date.v
               IN  StoreTime(result.messages[i].date) = TruncatedToSecond(ns)

(***************************************************************************)
(* Senders, as the specification states them                               *)
(***************************************************************************)
StoreRowSet == {StoreRows[i] : i \in 1..Len(StoreRows)}

\* the two stored sender identifiers of a row, where they are text
StoredIdentifiers(row) ==
    {c.v : c \in {x \in {row.h_id, row.h_uncanonicalized_id} : x.t = "text"}}

\* the phones of a request, in its order
PhonesOf(p) ==
    Flatten([i \in 1..Len(p.contact_identifiers) |-> p.contact_identifiers[i].phones])

DigitPositions(s) == {i \in 1..Len(s) : s[i] \in Digits}

\* the ASCII digits of s in their original order, by position
DigitsInOrder(s) ==
    LET at == DigitPositions(s)
    IN  [k \in 1..Cardinality(at) |->
            s[CHOOSE i \in at : Cardinality({j \in at : j <= i}) = k]]

\* the last 10 of the digits when there are more than 10, else all of them
LastTenDigits(s) ==
    LET d == DigitsInOrder(s)
    IN  [k \in 1..(IF Len(d) > 10 THEN 10 ELSE Len(d)) |->
            d[k + (IF Len(d) > 10 THEN Len(d) - 10 ELSE 0)]]

\* a stored identifier without its formatting characters
Unformatted(s) == SelectSeq(s, LAMBDA c : c \notin {"+", "-", " ", "(", ")"})

\* the phone conditions of a text, in their order
PhoneConditionsIn(text) ==
    LET at == {i \in 1..Len(text) : text[i] = PhonePre}
    IN  [k \in 1..Cardinality(at) |->
            LET i == CHOOSE x \in at : Cardinality({j \in at : j <= x}) = k
                e == CHOOSE y \in i..Len(text) :
                        text[y] = PhonePost /\ \A z \in i..(y - 1) : text[z] # PhonePost
            IN  SubSeq(text, i, e)]

ExamplePhone ==
    <<"+", "1", " ", "(", "4", "1", "5", ")", " ", "5", "5", "5", "-", "0", "1", "0", "0">>
ExampleDigits == <<"1", "4", "1", "5", "5", "5", "5", "0", "1", "0", "0">>
ExampleMatcher == <<"4", "1", "5", "5", "5", "5", "0", "1", "0", "0">>

(***************************************************************************)
(* C8  normalize_phone_number keeps exactly the ASCII digits of a phone    *)
(* sender in their original order ("+1 (415) 555-0100" gives               *)
(* "14155550100"); the matcher of the query is the last 10 of those digits *)
(* when there are more than 10 ("4155550100"), otherwise all of them, and  *)
(* it is compared as a suffix of the stored identifier (h.id or            *)
(* h.uncanonicalized_id, read without the formatting characters + - ( )    *)
(* and blank).  A phone without a digit contributes no condition.          *)
(***************************************************************************)
C8_PhoneMatcher ==
    pc \in {"prepare", "query"} =>
        LET phones == SelectSeq(PhonesOf(params), LAMBDA ph : DigitPositions(ph) # {})
            found  == PhoneConditionsIn(sql)
        IN  /\ \A i \in 1..Len(PhonesOf(params)) :
                  normalize_phone_number(PhonesOf(params)[i])
                      = DigitsInOrder(PhonesOf(params)[i])
            /\ Len(found) = Len(phones)
            /\ \A k \in 1..Len(found) :
                  LET m == LastTenDigits(phones[k])
                  IN  /\ found[k] = <<PhonePre>> \o m \o <<PhoneMid>> \o m \o <<PhonePost>>
                      /\ \A row \in StoreRowSet :
                            (CondTruth(found[k], row) = "T")
                            <=> \E id \in StoredIdentifiers(row) : IsSuffix(m, Unformatted(id))
            /\ \A i \in 1..Len(PhonesOf(params)) :
                  PhonesOf(params)[i] = ExamplePhone
                  => /\ normalize_phone_number(ExamplePhone) = ExampleDigits
                     /\ \E k \in 1..Len(found) :
                           SubSeq(found[k], 2, 1 + Len(ExampleMatcher)) = ExampleMatcher

\* a request with a phone of more than 10 digits, one of fewer and one of
\* none has been composed, and its conditions select some rows and not others
C8_Witness ==
    /\ pc = "query"
    /\ \E i \in 1..Len(PhonesOf(params)) : PhonesOf(params)[i] = ExamplePhone
    /\ \E i \in 1..Len(PhonesOf(params)) :
          Cardinality(DigitPositions(PhonesOf(params)[i])) \in 1..9
    /\ \E i \in 1..Len(PhonesOf(params)) : DigitPositions(PhonesOf(params)[i]) = {}
    /\ Len(PhoneConditionsIn(sql)) = 2
    /\ \E row \in StoreRowSet : CondTruth(PhoneConditionsIn(sql)[1], row) = "T"
    /\ \E row \in StoreRowSet : CondTruth(PhoneConditionsIn(sql)[1], row) = "F"

(***************************************************************************)
(* The sender conditions of a request as the specification states them:    *)
(* each contact id, each phone with a digit and each email is one          *)
(* condition, and each is tested on h.id and on h.uncanonicalized_id.      *)
(***************************************************************************)
ConditionsOf(identifier) ==
    (IF identifier.contact_id.some
        THEN {[kind |-> "id", value |-> identifier.contact_id.val]} ELSE {})
    \cup {[kind |-> "phone", value |-> LastTenDigits(identifier.phones[i])] :
             i \in {j \in 1..Len(identifier.phones) :
                       DigitPositions(identifier.phones[j]) # {}}}
    \cup {[kind |-> "email", value |-> identifier.emails[i]] :
             i \in 1..Len(identifier.emails)}

SenderConditions(p) ==
    UNION {ConditionsOf(p.contact_identifiers[i]) : i \in 1..Len(p.contact_identifiers)}

\* the row satisfies the condition on one of its two stored identifiers
Satisfies(row, cond) ==
    \E id \in StoredIdentifiers(row) :
        IF cond.kind = "phone" THEN IsSuffix(cond.value, Unformatted(id))
        ELSE id = cond.value

\* the row satisfies every clause of the text but the sender group
OtherClausesHold(text, row) ==
    \A c \in Clauses(text) : c[1] # SenderPre => ClauseHolds(c, row)

Range(seq) == {seq[i] : i \in 1..Len(seq)}

(***************************************************************************)
(* C9  Several sender conditions (across contact identifiers, and across   *)
(* one contact's id, phones and emails) are combined with OR inside one    *)
(* parenthesized group that is ANDed with the other clauses: a message     *)
(* passes the sender filter iff it satisfies at least one condition, each  *)
(* condition being tested on both h.id and h.uncanonicalized_id.           *)
(***************************************************************************)
C9_SenderConditionsAreOred ==
    (pc = "query" /\ SenderConditions(params) # {}) =>
        LET conds    == SenderConditions(params)
            named    == {row \in StoreRowSet : \E cond \in conds : Satisfies(row, cond)}
        IN  /\ HasClause(sql, SenderPre)
            /\ LET c == TheClause(sql, SenderPre)
               IN  /\ c[Len(c)] = RParen
                   /\ \A i \in 1..Len(c) : c[i] # AndSep
                   /\ \A row \in StoreRowSet : ClauseHolds(c, row) <=> row \in named
            /\ Range(ResultRows(sql))
                  = {row \in named : OtherClausesHold(sql, row)}

\* two identifiers with three conditions or more between them, of which a
\* returned row satisfies one only, while another row satisfies none
C9_Witness ==
    /\ pc = "query"
    /\ Len(params.contact_identifiers) >= 2
    /\ Cardinality(SenderConditions(params)) >= 3
    /\ \E row \in Range(ResultRows(sql)) :
          Cardinality({cond \in SenderConditions(params) : Satisfies(row, cond)}) = 1
    /\ \E row \in StoreRowSet :
          /\ StoredIdentifiers(row) # {}
          /\ \A cond \in SenderConditions(params) : ~Satisfies(row, cond)

(***************************************************************************)
(* C10  An email sender value matches a stored sender identifier iff the   *)
(* two are equal ignoring letter case: a search whose only filter is       *)
(* email senders returns exactly the messages with a stored identifier     *)
(* that equals one of the emails up to case.                               *)
(***************************************************************************)
EqualIgnoringCase(a, b) ==
    /\ Len(a) = Len(b)
    /\ \A i \in 1..Len(a) : UpperChar(a[i]) = UpperChar(b[i])

\* the request filters by email senders and by nothing else
OnlyEmailSenders(p) ==
    /\ SenderConditions(p) # {}
    /\ \A cond \in SenderConditions(p) : cond.kind = "email"
    /\ {sql[i] : i \in HeadIdx(sql)} = {SenderPre, OrderPre}

C10_EmailMatchIgnoresCase ==
    (pc = "query" /\ OnlyEmailSenders(params)) =>
        Range(ResultRows(sql))
            = {row \in StoreRowSet :
                  \E cond \in SenderConditions(params), id \in StoredIdentifiers(row) :
                      EqualIgnoringCase(cond.value, id)}

(***************************************************************************)
(* C11  When the query text is empty or only whitespace the composed       *)
(* query has no text clause, so only the other filters constrain the       *)
(* result; when it is not, exactly one contains-pattern clause             *)
(* m.text LIKE '%text%' is added, which a message passes iff its text      *)
(* contains the query text (a query text without the LIKE wildcards % and  *)
(* _, letter case ignored).                                                *)
(***************************************************************************)
IsBlank(s) == \A i \in 1..Len(s) : s[i] = " "

ContainsIgnoringCase(s, q) ==
    \E i \in 0..(Len(s) - Len(q)) :
        \A k \in 1..Len(q) : UpperChar(s[i + k]) = UpperChar(q[k])

\* the filters of a request other than its query text
NoOtherFilter(p) == [p EXCEPT !.query = <<>>, !.sort_direction = <<"a", "s", "c">>]
                        = [NoParams EXCEPT !.sort_direction = <<"a", "s", "c">>]

C11_TextClause ==
    pc \in {"prepare", "query"} =>
        LET at == {i \in 1..Len(sql) : sql[i] = TextPre}
        IN  IF IsBlank(params.query)
            THEN /\ at = {}
                 /\ \A i \in 1..Len(sql) : sql[i] # TextPost
                 /\ (NoOtherFilter(params) /\ params.sort_direction \in SortDirections)
                    => Range(ResultRows(sql)) = StoreRowSet
            ELSE /\ Cardinality(at) = 1
                 /\ LET c   == TheClause(sql, TextPre)
                        lit == SubSeq(c, 2, Len(c) - 1)
                    IN  /\ c[Len(c)] = TextPost
                        /\ LitOk(lit)
                        /\ LitVal(lit) = params.query
                        /\ (\A i \in 1..Len(params.query) : params.query[i] \notin {"%", "_"})
                           => \A row \in StoreRowSet :
                              ClauseHolds(c, row)
                              <=> /\ row.text.t # "null"
                                  /\ ContainsIgnoringCase(row.text.v, params.query)

\* a query of blanks only has been composed together with other filters
C11_Witness ==
    /\ pc = "query"
    /\ params.query # <<>>
    /\ IsBlank(params.query)
    /\ params.conversation_id.some
    /\ HasClause(sql, ConvPre)
    /\ ~HasClause(sql, TextPre)

(***************************************************************************)
(* C12  For every request, whatever its sort_direction string, the         *)
(* composed query ends with an ordering by m.date in the direction named   *)
(* by sort_direction followed by the cap LIMIT 100, the store applies      *)
(* that cap, and no search returns more than 100 messages.                 *)
(***************************************************************************)
C12_OrderedAndCapped ==
    /\ pc \in {"prepare", "query"} =>
           /\ HasClause(sql, OrderPre)
           /\ LET c == TheClause(sql, OrderPre)
              IN  /\ c = SubSeq(sql, Len(sql) - Len(c) + 1, Len(sql))
                  /\ c = <<OrderPre>> \o to_uppercase(params.sort_direction) \o <<LimitPost>>
           /\ LimitInForce(sql)
           /\ Descending(sql) <=> to_uppercase(params.sort_direction) = <<"D", "E", "S", "C">>
    /\ (pc = "done" /\ result.kind = "Ok") => Len(result.messages) <= RowLimit

(***************************************************************************)
(* C13  When start_date and end_date both parse and start_date is the      *)
(* later day, the search returns no error: the composed query is well      *)
(* formed, no message can satisfy its two date clauses, and the            *)
(* invocation returns Ok with an empty message list.                       *)
(***************************************************************************)
\* calendar date a is a later day than calendar date b
LaterDay(a, b) ==
    \/ a[1] > b[1]
    \/ a[1] = b[1] /\ a[2] > b[2]
    \/ a[1] = b[1] /\ a[2] = b[2] /\ a[3] > b[3]

ReversedDates(p) ==
    /\ IsDate(p.start_date)
    /\ IsDate(p.end_date)
    /\ LaterDay(ParseDate(p.start_date.val).val, ParseDate(p.end_date.val).val)

C13_ReversedDatesGiveNoResult ==
    /\ (pc = "prepare" /\ ReversedDates(params)) =>
           /\ HasClause(sql, AfterPre) /\ ClauseOk(TheClause(sql, AfterPre))
           /\ HasClause(sql, BeforePre) /\ ClauseOk(TheClause(sql, BeforePre))
           /\ ~NsLess(AfterValue(sql), BeforeValue(sql))
    /\ (pc = "done" /\ ReversedDates(params) /\ failure = "none") => result = Ok(<<>>)

(***************************************************************************)
(* C14  A start_date or end_date that is no YYYY-MM-DD calendar date is    *)
(* treated as absent: date_to_apple_timestamp returns None, the composed   *)
(* query has no clause for that bound and is the query of the same         *)
(* request without the date, and no error comes of it.                     *)
(***************************************************************************)
\* a year of one to four digits, a month and a day of one or two digits,
\* with a dash between them, and a day that the month has
IsCalendarDate(s) ==
    LET dash == {i \in 1..Len(s) : s[i] = "-"}
    IN  /\ Cardinality(dash) = 2
        /\ \A i \in 1..Len(s) : s[i] \in Digits \cup {"-"}
        /\ LET i == CHOOSE x \in dash : \A z \in dash : x <= z
               j == CHOOSE x \in dash : \A z \in dash : z <= x
           IN  /\ i - 1 \in 1..4
               /\ j - i - 1 \in 1..2
               /\ Len(s) - j \in 1..2
               /\ LET y == DecVal(SubSeq(s, 1, i - 1))
                      m == DecVal(SubSeq(s, i + 1, j - 1))
                      d == DecVal(SubSeq(s, j + 1, Len(s)))
                      long == CASE m \in {1, 3, 5, 7, 8, 10, 12} -> 31
                                [] m \in {4, 6, 9, 11} -> 30
                                [] m = 2 -> IF y % 400 = 0 \/ (y % 4 = 0 /\ y % 100 # 0)
                                            THEN 29 ELSE 28
                                [] OTHER -> 0
                  IN  d >= 1 /\ d <= long

Malformed(date) == date.some /\ ~IsCalendarDate(date.val)

\* the texts a request can compose
TextsOf(p) ==
    {ComposeSql(p, s, e) : s \in {o \in DateOutcomes(p.start_date) : o.kind # "panic"},
                           e \in {o \in DateOutcomes(p.end_date) : o.kind # "panic"}}

C14_MalformedDateIsAbsent ==
    /\ (pc \in {"prepare", "query"} /\ Malformed(params.start_date)) =>
           /\ date_to_apple_timestamp(params.start_date.val) = {[kind |-> "none"]}
           /\ ~HasClause(sql, AfterPre)
           /\ sql \in TextsOf([params EXCEPT !.start_date = None])
    /\ (pc \in {"prepare", "query"} /\ Malformed(params.end_date)) =>
           /\ date_to_apple_timestamp(params.end_date.val) = {[kind |-> "none"]}
           /\ ~HasClause(sql, BeforePre)
           /\ sql \in TextsOf([params EXCEPT !.end_date = None])
    /\ (/\ pc = "done"
        /\ failure = "none"
        /\ Malformed(params.start_date) \/ Malformed(params.end_date)
        /\ ~params.start_date.some \/ ~IsCalendarDate(params.start_date.val)
        /\ ~params.end_date.some \/ ~IsCalendarDate(params.end_date.val))
       => result.kind = "Ok"

\* a search with a malformed start date and other filters has returned
C14_Witness ==
    /\ pc = "done"
    /\ result.kind = "Ok"
    /\ Malformed(params.start_date)
    /\ params.end_date.some
    /\ HasClause(sql, BeforePre)
    /\ ~HasClause(sql, AfterPre)

(***************************************************************************)
(* C15  A result row that fails to decode is skipped and does not abort    *)
(* the search: the returned list holds exactly the rows that decoded, in   *)
(* the order the store yields them, and the invocation returns Ok.         *)
(***************************************************************************)
\* the mapper reads message_id as an integer and text as a string or NULL
Decodable(row) == row.text.t \in {"text", "null"}

C15_UndecodableRowsAreSkipped ==
    (pc = "done" /\ failure = "none" /\ sql # <<>>) =>
        /\ result.kind = "Ok"
        /\ LET decoded == SelectSeq(ResultRows(sql), Decodable)
           IN  /\ Len(result.messages) = Len(decoded)
               /\ \A i \in 1..Len(decoded) :
                     result.messages[i].id = decoded[i].message_id

\* the store yielded a row that does not decode before one that does, and
\* the search returned
C15_Witness ==
    /\ pc = "done"
    /\ failure = "none"
    /\ result.kind = "Ok"
    /\ \E i, j \in 1..Len(ResultRows(sql)) :
          /\ i < j
          /\ ~Decodable(ResultRows(sql)[i])
          /\ Decodable(ResultRows(sql)[j])
    /\ result.messages # <<>>


(***************************************************************************)
(* C16: concurrent invocations share no mutable state: whatever steps the  *)
(* other invocations take, an invocation's query text is a text its own    *)
(* request composes, and what it returns is what a lone invocation with    *)
(* the same request against the same store can return.                     *)
(***************************************************************************)
\* what a lone invocation with request p can return
ResultsOf(p) ==
    {Err(e) : e \in {"OtherError", "DatabaseNotFound", "PermissionError",
                     "DatabaseConnectionError", "DatabaseQueryError"}}
    \cup {Panic : o \in {o \in DateOutcomes(p.start_date) \cup DateOutcomes(p.end_date) :
                            o.kind = "panic"}}
    \cup UNION {{Ok(CollectMessages(SubSeq(ResultRows(t), 1, n))) :
                    n \in 0..Len(ResultRows(t))} :
                t \in {t \in TextsOf(p) : ~PrepareFails(t) /\ ParameterCount(t) = 0}}

C16_InvocationsAreIndependent ==
    \A i \in Invocations :
        /\ pc[i] \in {"prepare", "query"} => sql[i] \in TextsOf(params[i])
        /\ pc[i] = "done" => result[i] \in ResultsOf(params[i])
        /\ pc[i] = "idle" => result[i] = NoResult

\* two invocations with different requests are past composition at once,
\* and one of them has returned messages
C16_Witness ==
    \E i, j \in Invocations :
        /\ params[i] # params[j]
        /\ pc[i] = "done" /\ result[i].kind = "Ok" /\ result[i].messages # <<>>
        /\ pc[j] \in {"prepare", "query", "done"}
        /\ sql[j] # <<>> /\ sql[j] # sql[i]


(***************************************************************************)
(* C17  A query text that holds the directive FROM:"a b" is read as one    *)
(* sender matcher with the value a b (quotes stripped, not split at the    *)
(* blank): the composed query has a sender group with a condition on the   *)
(* literal 'a b', and the directive is no part of the free-text pattern.   *)
(***************************************************************************)
\* part occurs in text as a run of adjacent elements
Occurs(part, text) ==
    \E i \in 1..(Len(text) - Len(part) + 1) : SubSeq(text, i, i + Len(part) - 1) = part

DirectiveValue == <<"a", " ", "b">>

C17_FromDirectiveIsSenderMatcher ==
    (pc \in {"prepare", "query"} /\ Occurs(FromDirective, params.query)) =>
        /\ HasClause(sql, SenderPre)
        /\ Occurs(<<"'">> \o DirectiveValue \o <<"'">>, TheClause(sql, SenderPre))
        /\ ~Occurs(<<"'">> \o <<"\"">>, TheClause(sql, SenderPre))
        /\ HasClause(sql, TextPre) =>
               ~Occurs(<<"F", "R", "O", "M", ":">>, TheClause(sql, TextPre))


(***************************************************************************)
(* C18  The composed query has a sender group exactly when some contact    *)
(* identifier contributes a condition (a contact_id, a phone with a digit, *)
(* or an email).  When identifiers are given but none contributes, the     *)
(* query is the one of the same request without identifiers: the search    *)
(* is not restricted by sender.                                            *)
(***************************************************************************)
C18_SenderClauseIffCondition ==
    pc \in {"prepare", "query"} =>
        /\ HasClause(sql, SenderPre) <=> SenderConditions(params) # {}
        /\ SenderConditions(params) = {} =>
               sql \in TextsOf([params EXCEPT !.contact_identifiers = <<>>])

\* identifiers are given, none of them contributes a condition, and the
\* query was composed
C18_Witness ==
    /\ pc \in {"prepare", "query"}
    /\ params.contact_identifiers # <<>>
    /\ SenderConditions(params) = {}
    /\ ~HasClause(sql, SenderPre)


(***************************************************************************)
(* C19  In the composed query every value placed between quotes (the free  *)
(* text, a contact_id, an email) has each of its single quotes doubled,    *)
(* and a phone is reduced to its digits: each literal is closed only by    *)
(* the composer's closing quote, denotes exactly the value given, and the  *)
(* store reads the text clause and the sender group as they were composed. *)
(***************************************************************************)
\* the pieces that end with an opening quote, and those that begin with
\* the closing one
Openers == {TextPre, EqPre, EqMid, PhonePre, PhoneMid}
Closers == {TextPost, EqMid, EqPost, PhoneMid, PhonePost}

CloseOf(text, i) ==
    CHOOSE j \in (i + 1)..Len(text) :
        text[j] \in Closers /\ \A k \in (i + 1)..(j - 1) : text[k] \notin Closers

\* what stands between the quotes opened by one of the pieces in openers
LiteralsAfter(text, openers) ==
    {SubSeq(text, i + 1, CloseOf(text, i) - 1) : i \in {i \in 1..Len(text) : text[i] \in openers}}

QuotedValues(p) == {c.value : c \in {c \in SenderConditions(p) : c.kind # "phone"}}

PhoneValues(p) == {c.value : c \in {c \in SenderConditions(p) : c.kind = "phone"}}

C19_ValuesStayInsideLiterals ==
    pc \in {"prepare", "query"} =>
        /\ \A l \in LiteralsAfter(sql, Openers) : LitOk(l)
        /\ {LitVal(l) : l \in LiteralsAfter(sql, {TextPre})}
              = IF IsBlank(params.query) THEN {} ELSE {params.query}
        /\ {LitVal(l) : l \in LiteralsAfter(sql, {EqPre})} = QuotedValues(params)
        /\ {LitVal(l) : l \in LiteralsAfter(sql, {EqMid})} = QuotedValues(params)
        /\ LiteralsAfter(sql, {PhonePre}) = PhoneValues(params)
        /\ LiteralsAfter(sql, {PhoneMid}) = PhoneValues(params)
        /\ \A l \in LiteralsAfter(sql, {PhonePre, PhoneMid}) :
              \A i \in 1..Len(l) : l[i] \in Digits
        /\ \A c \in Clauses(sql) : c[1] \in {TextPre, SenderPre} => ClauseOk(c)

\* the free text, a contact_id and an email each hold a single quote, a
\* phone is given with punctuation, and the query was composed
C19_Witness ==
    /\ pc \in {"prepare", "query"}
    /\ "'" \in Range(params.query)
    /\ \E c, d, e \in SenderConditions(params) :
          /\ c.kind = "id" /\ "'" \in Range(c.value)
          /\ d.kind = "phone"
          /\ e.kind = "email" /\ "'" \in Range(e.value)
    /\ \E l \in LiteralsAfter(sql, {TextPre}) : Occurs(<<"'", "'">>, l)


(***************************************************************************)
(* C20  The conversation type is a three-way case on the exact string:     *)
(* "all" adds no clause; "direct" keeps the messages of conversations with *)
(* at most 1 distinct participant handle; every other string ("group",     *)
(* and also "ALL" or "Direct") keeps those of conversations with more      *)
(* than 1.                                                                 *)
(***************************************************************************)
\* the conversation of the row is of the kind the string asks for
OfKind(conversation_type, row) ==
    CASE conversation_type = "all" -> TRUE
      [] conversation_type = "direct" -> ChatHandles[row.chat_id] <= 1
      [] OTHER -> ChatHandles[row.chat_id] > 1

C20_ConversationType ==
    /\ pc \in {"prepare", "query"} =>
          /\ HasClause(sql, TypePre) <=> params.conversation_type # "all"
          /\ HasClause(sql, TypePre) =>
                LET c == TheClause(sql, TypePre)
                IN  /\ ClauseOk(c)
                    /\ \A row \in StoreRowSet :
                          ClauseHolds(c, row) <=> OfKind(params.conversation_type, row)
    /\ pc = "query" =>
          LET rows == ResultRows(sql)
          IN  \A i \in 1..Len(rows) : OfKind(params.conversation_type, rows[i])
    /\ (pc = "done" /\ result.kind = "Ok") =>
          \A i \in 1..Len(result.messages) :
              OfKind(params.conversation_type, StoreRowOf(result.messages[i].id))

\* a search whose conversation type is none of "all", "direct" and "group"
\* returned messages
C20_Witness ==
    /\ pc = "done"
    /\ params.conversation_type \notin {"all", "direct", "group"}
    /\ result.kind = "Ok"
    /\ result.messages # <<>>


(***************************************************************************)
(* C21  Both date bounds are strict and both are the value                 *)
(* date_to_apple_timestamp gives for the date (23:59:59 of that day): a    *)
(* message whose store time equals a bound is excluded, and a search whose *)
(* start_date and end_date denote the same day matches no message.         *)
(***************************************************************************)
\* the values date_to_apple_timestamp can deliver for a date
BoundsOf(date) == {o.val : o \in {o \in DateOutcomes(date) : o.kind = "some"}}

SameDay(p) ==
    /\ IsDate(p.start_date)
    /\ IsDate(p.end_date)
    /\ ParseDate(p.start_date.val) = ParseDate(p.end_date.val)

C21_DateBoundsAreStrict ==
    /\ (pc \in {"prepare", "query"} /\ IsDate(params.start_date)) =>
          /\ HasClause(sql, AfterPre)
          /\ LET c == TheClause(sql, AfterPre)
                 v == AfterValue(sql)
             IN  /\ v \in BoundsOf(params.start_date)
                 /\ \A row \in StoreRowSet :
                       ClauseHolds(c, row) <=> (row.date.t = "int" /\ NsLess(v, row.date.v))
    /\ (pc \in {"prepare", "query"} /\ IsDate(params.end_date)) =>
          /\ HasClause(sql, BeforePre)
          /\ LET c == TheClause(sql, BeforePre)
                 v == BeforeValue(sql)
             IN  /\ v \in BoundsOf(params.end_date)
                 /\ \A row \in StoreRowSet :
                       ClauseHolds(c, row) <=> (row.date.t = "int" /\ NsLess(row.date.v, v))
    /\ (pc = "query" /\ SameDay(params)) =>
          /\ AfterValue(sql) = BeforeValue(sql)
          /\ ResultRows(sql) = <<>>
    /\ (pc = "done" /\ result.kind = "Ok") =>
          /\ SameDay(params) => result.messages = <<>>
          /\ \A i \in 1..Len(result.messages) :
                LET at == StoreRowOf(result.messages[i].id).date.v
                IN  /\ HasClause(sql, AfterPre) => at # AfterValue(sql)
                    /\ HasClause(sql, BeforePre) => at # BeforeValue(sql)

\* a search for one single day, on which the store holds a message at noon
\* and one at 23:59:59 (the value of both bounds), returned
C21_Witness ==
    /\ pc = "done"
    /\ failure = "none"
    /\ result.kind = "Ok"
    /\ SameDay(params)
    /\ \E row \in StoreRowSet : row.date.t = "int" /\ row.date.v = BeforeValue(sql)
    /\ \E row \in StoreRowSet :
          /\ row.date.t = "int"
          /\ NsLess(NsSub(BeforeValue(sql), <<0, 86399, 0>>), row.date.v)
          /\ NsLess(row.date.v, BeforeValue(sql))


(***************************************************************************)
(* C22  check_permissions never returns an error.  It returns Ok(true)     *)
(* exactly when check_messages_permission and then                         *)
(* check_contacts_permission both return Ok(true), and Ok(false) in every  *)
(* other case; the Contacts check is called only after the Messages check  *)
(* returned true; the unreachable!() arm is never executed.                *)
(***************************************************************************)
\* what the environment grants, read off the system calls
MessagesGranted(env) == env.locate = "ok" /\ env.open = "ok"

ContactsGranted(env) ==
    env.osascript = "success" \/ (env.home /\ env.sources_exists /\ env.read_dir)

C22_CheckPermissions ==
    /\ result # Panic
    /\ pc = "done" =>
          /\ result \in {OkBool(TRUE), OkBool(FALSE)}
          /\ result = OkBool(TRUE)
                <=> /\ check_messages_permission(params) = OkBool(TRUE)
                    /\ check_contacts_permission(params) = OkBool(TRUE)
          /\ result = OkBool(TRUE) <=> (MessagesGranted(params) /\ ContactsGranted(params))
    /\ sql \in {<<>>, <<"check_messages_permission">>,
                <<"check_messages_permission", "check_contacts_permission">>}
    /\ Len(sql) = 2 => /\ check_messages_permission(params) = OkBool(TRUE)
                       /\ failure.messages_result = TRUE
    /\ (pc = "done" /\ check_messages_permission(params) # OkBool(TRUE)) => Len(sql) = 1

\* the Messages check returned true, the Contacts check returned an error,
\* and check_permissions has returned
C22_Witness ==
    /\ pc = "done"
    /\ sql = <<"check_messages_permission", "check_contacts_permission">>
    /\ check_contacts_permission(params).kind = "Err"
    /\ result = OkBool(FALSE)


(***************************************************************************)
(* C23  Under every interleaving of concurrent read_contacts invocations,  *)
(* no invocation opens or queries the copied AddressBook-v22.db while      *)
(* another invocation is overwriting it.                                   *)
(***************************************************************************)
C23_NoReadDuringCopy ==
    \A i \in Invocations :
        \A k \in 1..Len(sql[i]) : sql[i][k] # "overwritten"


(***************************************************************************)
(* C24  Every Message returned by get_messages or search_messages: if      *)
(* is_from_me is true then sender_name is None; sender_name is Some only   *)
(* for a message not from me whose sender identifier column decoded (and   *)
(* is then that identifier); is_from_me is true only when the stored flag  *)
(* decodes to exactly 1.                                                   *)
(***************************************************************************)
\* COALESCE(h.uncanonicalized_id, h.id) of the row is TEXT
SenderDecodes(row) ==
    \/ row.h_uncanonicalized_id.t = "text"
    \/ row.h_uncanonicalized_id.t = "null" /\ row.h_id.t = "text"

FlagIsOne(row) == row.is_from_me = Integer(1)

C24_SenderAndFlag ==
    (pc = "mapped" /\ result.kind = "Ok") =>
        \A i \in 1..Len(result.messages) :
            LET m == result.messages[i]
            IN  /\ m.is_from_me => m.sender_name = None
                /\ m.sender_name.some => (~m.is_from_me /\ SenderDecodes(params))
                /\ m.sender_name.some =>
                      m.sender_name.val = IF params.h_uncanonicalized_id.t = "text"
                                          THEN params.h_uncanonicalized_id.v
                                          ELSE params.h_id.v
                /\ m.is_from_me => FlagIsOne(params)

\* get_messages returned a Message for a row whose flag is the integer 2
\* and whose sender identifier decoded
C24_Witness ==
    /\ pc = "mapped"
    /\ sql = "get_messages"
    /\ params.is_from_me = Integer(2)
    /\ SenderDecodes(params)
    /\ result.kind = "Ok"
    /\ Len(result.messages) = 1
    /\ result.messages[1].sender_name.some

====
